---- MODULE Spec2Model ----
(***************************************************************************)
(* x402-indexer: URL validator, bounded fetch client, health checker with  *)
(* chunked concurrency, and the transactional persistence layer.           *)
(***************************************************************************)
EXTENDS Integers, Sequences, FiniteSets, TLC

\* ------------------------------------------------------------------------
\* Bounds of the model
\* ------------------------------------------------------------------------
MaxUrls == 3
MaxConcurrency == 2
MaxRetries == 3
MaxFailures == 4

\* ------------------------------------------------------------------------
\* String helpers (JavaScript string methods, on TLC strings)
\* ------------------------------------------------------------------------
At(s, k) == SubSeq(s, k, k)

Slice(s, from) == SubSeq(s, from + 1, Len(s))

StartsWith(s, p) == Len(p) <= Len(s) /\ SubSeq(s, 1, Len(p)) = p

Includes(s, p) == \E k \in 1..(Len(s) - Len(p) + 1) : SubSeq(s, k, k + Len(p) - 1) = p

UpperChars == "ABCDEFGHIJKLMNOPQRSTUVWXYZ"

LowerChars == "abcdefghijklmnopqrstuvwxyz"

UpperSet == { At(UpperChars, k) : k \in 1..26 }

LowerChar(c) ==
  IF c \in UpperSet
  THEN At(LowerChars, CHOOSE k \in 1..26 : At(UpperChars, k) = c)
  ELSE c

RECURSIVE ToLowerCase(_)
ToLowerCase(s) ==
  IF Len(s) = 0 THEN "" ELSE LowerChar(At(s, 1)) \o ToLowerCase(Slice(s, 1))

DecDigits == "0123456789"

HexDigits == "0123456789abcdef"

DecDigitSet == { At(DecDigits, k) : k \in 1..10 }

HexDigitSet == { At(HexDigits, k) : k \in 1..16 }

IsDigit(c) == c \in DecDigitSet

IsHexDigit(c) == c \in HexDigitSet

DigitValue(c) == (CHOOSE k \in 1..16 : At(HexDigits, k) = c) - 1

AllDigits(s) == Len(s) > 0 /\ \A k \in 1..Len(s) : IsDigit(At(s, k))

AllHex(s) == \A k \in 1..Len(s) : IsHexDigit(At(s, k))

\* parseInt(s, base) / Number(s) on a string of digits
RECURSIVE ParseInt(_, _)
ParseInt(s, base) ==
  IF Len(s) = 0 THEN 0
  ELSE ParseInt(SubSeq(s, 1, Len(s) - 1), base) * base + DigitValue(At(s, Len(s)))

\* `${n}` for a natural number
RECURSIVE NumToString(_)
NumToString(n) ==
  IF n < 10 THEN At(DecDigits, n + 1)
  ELSE NumToString(n \div 10) \o At(DecDigits, (n % 10) + 1)

\* s.split(sep) for a one-character separator
RECURSIVE Split(_, _)
SplitAt(s, sep, k) == <<SubSeq(s, 1, k - 1)>> \o Split(Slice(s, k), sep)

Split(s, sep) ==
  IF \A k \in 1..Len(s) : At(s, k) # sep THEN <<s>>
  ELSE SplitAt(s, sep, CHOOSE k \in 1..Len(s) :
                         At(s, k) = sep /\ \A m \in 1..(k - 1) : At(s, m) # sep)

\* ------------------------------------------------------------------------
\* URL validator (src/utils/url-validator.ts)
\* ------------------------------------------------------------------------
BLOCKED_HOSTNAMES ==
  { "localhost", "127.0.0.1", "0.0.0.0", "::1", "[::]", "[::1]",
    "metadata.google.internal", "metadata.goog", "169.254.169.254" }

\* hostname.match(/^(\d+)\.(\d+)\.(\d+)\.(\d+)$/), given hostname.split(".")
Ipv4Groups(parts) ==
  IF Len(parts) = 4 /\ \A k \in 1..4 : AllDigits(parts[k])
  THEN [matched |-> TRUE, a |-> ParseInt(parts[1], 10), b |-> ParseInt(parts[2], 10)]
  ELSE [matched |-> FALSE, a |-> 0, b |-> 0]

Ipv4Match(hostname) == Ipv4Groups(Split(hostname, "."))

\* the range tests with 172.16.0.0/12 taken one network too far
Ipv4Ranges_Wide172(m) ==
  IF ~m.matched THEN FALSE
  ELSE m.a \in {0, 10, 127}
       \/ (m.a = 172 /\ m.b >= 16 /\ m.b <= 32)
       \/ (m.a = 192 /\ m.b = 168)
       \/ (m.a = 169 /\ m.b = 254)

\* the range tests of isPrivateIPv4 on the match m
Ipv4Ranges(m) ==
  IF ~m.matched THEN FALSE
  ELSE IF m.a = 10 THEN TRUE
  ELSE IF m.a = 127 THEN TRUE
  ELSE IF m.a = 172 /\ m.b >= 16 /\ m.b <= 31 THEN TRUE
  ELSE IF m.a = 192 /\ m.b = 168 THEN TRUE
  ELSE IF m.a = 169 /\ m.b = 254 THEN TRUE
  ELSE IF m.a = 0 THEN TRUE
  ELSE FALSE

isPrivateIPv4(hostname) == Ipv4Ranges(Ipv4Match(hostname))

StripOpen(h) == IF StartsWith(h, "[") THEN Slice(h, 1) ELSE h

StripClose(h) == IF Len(h) > 0 /\ At(h, Len(h)) = "]" THEN SubSeq(h, 1, Len(h) - 1) ELSE h

\* hostname.replace(/^\[|\]$/g, "").toLowerCase()
CleanHostname(hostname) == ToLowerCase(StripClose(StripOpen(hostname)))

\* ipv4Part.match(/^([0-9a-f]{1,4}):([0-9a-f]{1,4})$/i), given ipv4Part.split(":")
HexPairGroups(parts) ==
  Len(parts) = 2
  /\ \A k \in 1..2 : Len(parts[k]) >= 1 /\ Len(parts[k]) <= 4 /\ AllHex(ToLowerCase(parts[k]))

HexPairMatch(s) == HexPairGroups(Split(s, ":"))

\* the octets of each group taken low byte first
DottedQuad_LowByteFirst(high, low) ==
  NumToString(high % 256) \o "." \o NumToString((high \div 256) % 256) \o "."
    \o NumToString(low % 256) \o "." \o NumToString((low \div 256) % 256)

\* `${(high >> 8) & 0xff}.${high & 0xff}.${(low >> 8) & 0xff}.${low & 0xff}`
DottedQuad(high, low) ==
  NumToString((high \div 256) % 256) \o "." \o NumToString(high % 256) \o "."
    \o NumToString((low \div 256) % 256) \o "." \o NumToString(low % 256)

HexGroupsToIPv4(parts) ==
  DottedQuad(ParseInt(ToLowerCase(parts[1]), 16), ParseInt(ToLowerCase(parts[2]), 16))

HexPairToIPv4(s) == HexGroupsToIPv4(Split(s, ":"))

\* the IPv4-mapped branch of isPrivateIPv6 on ipv4Part
MappedIPv4(ipv4Part) ==
  IF isPrivateIPv4(ipv4Part) THEN TRUE
  ELSE IF HexPairMatch(ipv4Part) THEN isPrivateIPv4(HexPairToIPv4(ipv4Part))
  ELSE FALSE

\* the tests of isPrivateIPv6 on cleanHostname
Ipv6Ranges(cleanHostname) ==
  IF cleanHostname = "::1" \/ cleanHostname = "0:0:0:0:0:0:0:1" THEN TRUE
  ELSE IF cleanHostname = "::" \/ cleanHostname = "0:0:0:0:0:0:0:0" THEN TRUE
  ELSE IF Len(cleanHostname) >= 5
          /\ At(cleanHostname, 1) = "f"
          /\ At(cleanHostname, 2) \in {"c", "d"}
          /\ IsHexDigit(At(cleanHostname, 3))
          /\ IsHexDigit(At(cleanHostname, 4))
          /\ At(cleanHostname, 5) = ":" THEN TRUE
  ELSE IF Len(cleanHostname) >= 5
          /\ SubSeq(cleanHostname, 1, 2) = "fe"
          /\ At(cleanHostname, 3) \in {"8", "9", "a", "b"}
          /\ IsHexDigit(At(cleanHostname, 4))
          /\ At(cleanHostname, 5) = ":" THEN TRUE
  ELSE IF StartsWith(cleanHostname, "::ffff:") THEN MappedIPv4(Slice(cleanHostname, 7))
  ELSE FALSE

isPrivateIPv6(hostname) == Ipv6Ranges(CleanHostname(hostname))

\* ------------------------------------------------------------------------
\* `new URL(url)` on a text of the form scheme://host/path (no port, no
\* userinfo; the numbers of an IPv4 host written in decimal or octal): the
\* protocol, and the hostname as the URL API serialises it.
\* ------------------------------------------------------------------------
NoHost == [ok |-> FALSE, hostname |-> ""]

Host(hostname) == [ok |-> TRUE, hostname |-> hostname]

IsOctal(s) == \A k \in 1..Len(s) : IsDigit(At(s, k)) /\ DigitValue(At(s, k)) < 8

\* one number of an IPv4 host: -1 when it is no number
Ipv4Number(part) ==
  IF ~AllDigits(part) THEN -1
  ELSE IF Len(part) > 1 /\ At(part, 1) = "0"
  THEN IF IsOctal(part) THEN ParseInt(part, 8) ELSE -1
  ELSE ParseInt(part, 10)

\* 256^n for the last number of a host of 5 - n numbers (a host of one
\* number is taken below 2^31)
Pow256(n) == IF n = 1 THEN 256 ELSE IF n = 2 THEN 65536 ELSE 16777216

\* the four bytes of the numbers n1.n2...: the last number fills the
\* remaining bytes
Ipv4Bytes(numbers) ==
  IF Len(numbers) = 1
  THEN <<numbers[1] \div 16777216, (numbers[1] \div 65536) % 256,
         (numbers[1] \div 256) % 256, numbers[1] % 256>>
  ELSE IF Len(numbers) = 2
  THEN <<numbers[1], numbers[2] \div 65536, (numbers[2] \div 256) % 256, numbers[2] % 256>>
  ELSE IF Len(numbers) = 3
  THEN <<numbers[1], numbers[2], numbers[3] \div 256, numbers[3] % 256>>
  ELSE numbers

SerializeIpv4(bytes) ==
  NumToString(bytes[1]) \o "." \o NumToString(bytes[2]) \o "."
    \o NumToString(bytes[3]) \o "." \o NumToString(bytes[4])

\* a host whose last label is a number is an IPv4 address
ParseIpv4(parts) ==
  IF Len(parts) > 4 \/ \E k \in 1..Len(parts) : Ipv4Number(parts[k]) < 0 THEN NoHost
  ELSE IF \E k \in 1..(Len(parts) - 1) : Ipv4Number(parts[k]) > 255 THEN NoHost
  ELSE IF Len(parts) > 1 /\ Ipv4Number(parts[Len(parts)]) >= Pow256(5 - Len(parts)) THEN NoHost
  ELSE Host(SerializeIpv4(Ipv4Bytes([k \in 1..Len(parts) |-> Ipv4Number(parts[k])])))

IsHexGroup(g) == Len(g) >= 1 /\ Len(g) <= 4 /\ AllHex(ToLowerCase(g))

IsDotted(g) ==
  /\ Len(Split(g, ".")) = 4
  /\ \A k \in 1..4 : AllDigits(Split(g, ".")[k]) /\ Len(Split(g, ".")[k]) <= 3
                      /\ ParseInt(Split(g, ".")[k], 10) <= 255

\* the 16-bit pieces of a run of colon-separated groups; the last group may
\* be a dotted IPv4 address; <<-1>> when a group is malformed
RECURSIVE Ipv6Groups(_, _)
Ipv6Groups(groups, last) ==
  IF Len(groups) = 0 THEN <<>>
  ELSE IF Len(groups) = 1 /\ last /\ IsDotted(groups[1])
  THEN << ParseInt(Split(groups[1], ".")[1], 10) * 256 + ParseInt(Split(groups[1], ".")[2], 10),
          ParseInt(Split(groups[1], ".")[3], 10) * 256 + ParseInt(Split(groups[1], ".")[4], 10) >>
  ELSE IF ~IsHexGroup(groups[1]) THEN <<-1>>
  ELSE <<ParseInt(ToLowerCase(groups[1]), 16)>> \o Ipv6Groups(Tail(groups), last)

GroupsOf(text, last) == IF text = "" THEN <<>> ELSE Ipv6Groups(Split(text, ":"), last)

Malformed(pieces) == \E k \in 1..Len(pieces) : pieces[k] < 0

Zeros(n) == [k \in 1..n |-> 0]

\* the eight pieces of an IPv6 address text; <<>> when it is malformed
Ipv6Pieces(text) ==
  IF Includes(text, "::")
  THEN LET at == CHOOSE k \in 1..(Len(text) - 1) :
                   SubSeq(text, k, k + 1) = "::" /\ \A m \in 1..(k - 1) : SubSeq(text, m, m + 1) # "::"
           head == GroupsOf(SubSeq(text, 1, at - 1), FALSE)
           tail == GroupsOf(SubSeq(text, at + 2, Len(text)), TRUE)
       IN IF Malformed(head) \/ Malformed(tail) \/ Len(head) + Len(tail) > 7 THEN <<>>
          ELSE head \o Zeros(8 - Len(head) - Len(tail)) \o tail
  ELSE LET all == GroupsOf(text, TRUE)
       IN IF Malformed(all) \/ Len(all) # 8 THEN <<>> ELSE all

\* n.toString(16)
RECURSIVE NumToHex(_)
NumToHex(n) ==
  IF n < 16 THEN At(HexDigits, n + 1)
  ELSE NumToHex(n \div 16) \o At(HexDigits, (n % 16) + 1)

\* the length of the run of zero pieces starting at k
RECURSIVE ZeroRun(_, _)
ZeroRun(pieces, k) ==
  IF k > Len(pieces) \/ pieces[k] # 0 THEN 0 ELSE 1 + ZeroRun(pieces, k + 1)

\* where the "::" of the serialisation goes: the first longest run of two
\* or more zero pieces (0 when there is none)
Compress(pieces) ==
  IF \A k \in 1..8 : ZeroRun(pieces, k) < 2 THEN 0
  ELSE CHOOSE k \in 1..8 :
         /\ ZeroRun(pieces, k) >= 2
         /\ \A m \in 1..8 : ZeroRun(pieces, m) <= ZeroRun(pieces, k)
         /\ \A m \in 1..(k - 1) : ZeroRun(pieces, m) < ZeroRun(pieces, k)

RECURSIVE JoinHex(_, _, _)
JoinHex(pieces, from, to) ==
  IF from > to THEN ""
  ELSE NumToHex(pieces[from]) \o (IF from < to THEN ":" ELSE "") \o JoinHex(pieces, from + 1, to)

SerializeIpv6(pieces) ==
  IF Compress(pieces) = 0 THEN JoinHex(pieces, 1, 8)
  ELSE JoinHex(pieces, 1, Compress(pieces) - 1) \o "::"
         \o JoinHex(pieces, Compress(pieces) + ZeroRun(pieces, Compress(pieces)), 8)

ParseIpv6(text) ==
  IF Ipv6Pieces(text) = <<>> THEN NoHost ELSE Host("[" \o SerializeIpv6(Ipv6Pieces(text)) \o "]")

\* the host parser for https and the other special schemes
ParseHost(host) ==
  IF host = "" THEN NoHost
  ELSE IF At(host, 1) = "["
  THEN IF At(host, Len(host)) = "]" THEN ParseIpv6(SubSeq(host, 2, Len(host) - 1)) ELSE NoHost
  ELSE IF AllDigits(Split(host, ".")[Len(Split(host, "."))])
  THEN ParseIpv4(Split(host, "."))
  ELSE Host(ToLowerCase(host))

\* the schemes whose host is parsed as a domain or an IP address
SpecialSchemes == {"http:", "https:", "ftp:", "ws:", "wss:"}

\* scheme://host/path
ParseUrlParts(parts) ==
  IF Len(parts) < 3 \/ parts[2] # "" \/ Len(parts[1]) < 2 \/ At(parts[1], Len(parts[1])) # ":"
  THEN [ok |-> FALSE, protocol |-> "", hostname |-> ""]
  ELSE IF ToLowerCase(parts[1]) \notin SpecialSchemes
  THEN [ok |-> TRUE, protocol |-> ToLowerCase(parts[1]), hostname |-> parts[3]]
  ELSE IF ~ParseHost(parts[3]).ok THEN [ok |-> FALSE, protocol |-> "", hostname |-> ""]
  ELSE [ok |-> TRUE, protocol |-> ToLowerCase(parts[1]), hostname |-> ParseHost(parts[3]).hostname]

ParseUrlText(url) == ParseUrlParts(Split(url, "/"))

\* The URLs the model probes, and what `new URL(url)` makes of each.
UrlPool ==
  { "https://a.example/api", "https://b.example/api", "https://c.example/api",
    "https://d.example/api", "https://e.example/api", "http://a.example/api",
    "https://localhost/api", "https://10.0.0.1/api", "https://[::ffff:a00:1]/api",
    "not a url" }

Parsed(protocol, hostname) == [ok |-> TRUE, protocol |-> protocol, hostname |-> hostname]

ParseURL(url) ==
  CASE url = "https://a.example/api" -> Parsed("https:", "a.example")
    [] url = "https://b.example/api" -> Parsed("https:", "b.example")
    [] url = "https://c.example/api" -> Parsed("https:", "c.example")
    [] url = "https://d.example/api" -> Parsed("https:", "d.example")
    [] url = "https://e.example/api" -> Parsed("https:", "e.example")
    [] url = "http://a.example/api" -> Parsed("http:", "a.example")
    [] url = "https://localhost/api" -> Parsed("https:", "localhost")
    [] url = "https://10.0.0.1/api" -> Parsed("https:", "10.0.0.1")
    [] url = "https://[::ffff:a00:1]/api" -> Parsed("https:", "[::ffff:a00:1]")
    [] OTHER -> ParseUrlText(url)

Undefined == "<undefined>"

NoError == Undefined

\* the checks of validateUrl on the lower-cased hostname
ValidateHostname(hostname) ==
  IF hostname \in BLOCKED_HOSTNAMES
  THEN [valid |-> FALSE, error |-> "Blocked hostname: " \o hostname]
  ELSE IF isPrivateIPv4(hostname)
  THEN [valid |-> FALSE, error |-> "Blocked private IP: " \o hostname]
  ELSE IF isPrivateIPv6(hostname)
  THEN [valid |-> FALSE, error |-> "Blocked private IPv6: " \o hostname]
  ELSE [valid |-> TRUE, error |-> NoError]

\* validateUrl testing the hostname before the protocol
ValidateParsed_HostFirst(parsed) ==
  IF ~parsed.ok THEN [valid |-> FALSE, error |-> "Invalid URL format"]
  ELSE IF ~ValidateHostname(ToLowerCase(parsed.hostname)).valid
  THEN ValidateHostname(ToLowerCase(parsed.hostname))
  ELSE IF parsed.protocol # "https:"
  THEN [valid |-> FALSE,
        error |-> "Invalid protocol: " \o parsed.protocol \o " (only https:// allowed)"]
  ELSE [valid |-> TRUE, error |-> NoError]

\* validateUrl after `new URL(url)`
ValidateParsed(parsed) ==
  IF ~parsed.ok THEN [valid |-> FALSE, error |-> "Invalid URL format"]
  ELSE IF parsed.protocol # "https:"
  THEN [valid |-> FALSE,
        error |-> "Invalid protocol: " \o parsed.protocol \o " (only https:// allowed)"]
  ELSE ValidateHostname(ToLowerCase(parsed.hostname))

validateUrl(url) == ValidateParsed(ParseURL(url))

\* ------------------------------------------------------------------------
\* Formatting (src/utils/formatting.ts)
\* ------------------------------------------------------------------------
LowerSet == { At(LowerChars, k) : k \in 1..26 }

UpperChar(c) ==
  IF c \in LowerSet
  THEN At(UpperChars, CHOOSE k \in 1..26 : At(LowerChars, k) = c)
  ELSE c

RECURSIVE ToUpperCase(_)
ToUpperCase(s) ==
  IF Len(s) = 0 THEN "" ELSE UpperChar(At(s, 1)) \o ToUpperCase(Slice(s, 1))

\* key, symbol, decimals
KNOWN_TOKENS ==
  << <<"0x833589fcd6edb6e08f4c7c32d4f71b54bda02913", "USDC", 6>>,
     <<"0x036cbd53842c5426634e7929541ec2318f3dcf7e", "USDC", 6>>,
     <<"0xaf88d065e77c8cc2239327c5edb3a432268e5831", "USDC", 6>>,
     <<"0xa0b86991c6218b36c1d19d4a2e9eb0ce3606eb48", "USDC", 6>>,
     <<"0x3c499c542cef5e3811e1192ce70d8cc03d5c3359", "USDC", 6>>,
     <<"0xb97ef9ef8734c71904d8002f8b6bc66dd9c48a6e", "USDC", 6>>,
     <<"epjfwdd5aufqssqem2qn1xzybapC8g4weggkzwytdt1v", "USDC", 6>>,
     <<"0xdac17f958d2ee523a2206206994597c13d831ec7", "USDT", 6>>,
     <<"0xc2132d05d31c914a87c6611c10748aeb04b58e8f", "USDT", 6>>,
     <<"0xc02aaa39b223fe8d0a0e5c4f27ead9083c756cc2", "WETH", 18>>,
     <<"0x4200000000000000000000000000000000000006", "WETH", 18>>,
     <<"0x2260fac5e5542a773aa44fbcfedf7c193bc2c599", "WBTC", 8>>,
     <<"0x6b175474e89094c44da98b954eedeac495271d0f", "DAI", 18>>,
     <<"0x50c5725949a6f0c72e6c4a641f24049a917db0cb", "DAI", 18>> >>

TokenInfo(symbol, decimals) == [symbol |-> symbol, decimals |-> decimals]

\* KNOWN_TOKENS[lowerAsset]: its position, 0 when absent
KnownToken(lowerAsset) ==
  IF \E k \in 1..Len(KNOWN_TOKENS) : KNOWN_TOKENS[k][1] = lowerAsset
  THEN CHOOSE k \in 1..Len(KNOWN_TOKENS) : KNOWN_TOKENS[k][1] = lowerAsset
  ELSE 0

\* the fallbacks of getTokenInfo on the upper-cased asset
SymbolPattern(asset, upperAsset) ==
  IF Includes(upperAsset, "USDC") \/ Includes(upperAsset, "USDT")
  THEN TokenInfo(IF Includes(upperAsset, "USDC") THEN "USDC" ELSE "USDT", 6)
  ELSE IF Includes(upperAsset, "WETH") \/ Includes(upperAsset, "ETH")
  THEN TokenInfo("ETH", 18)
  ELSE IF Includes(upperAsset, "WBTC") \/ Includes(upperAsset, "BTC")
  THEN TokenInfo("BTC", 8)
  ELSE IF Includes(upperAsset, "DAI")
  THEN TokenInfo("DAI", 18)
  ELSE TokenInfo(IF StartsWith(asset, "0x") /\ Len(asset) > 10
                 THEN SubSeq(asset, 1, 6) \o "..." \o SubSeq(asset, Len(asset) - 3, Len(asset))
                 ELSE asset, 18)

TokenAt(asset, k) ==
  IF k > 0 THEN TokenInfo(KNOWN_TOKENS[k][2], KNOWN_TOKENS[k][3])
  ELSE SymbolPattern(asset, ToUpperCase(asset))

getTokenInfo(asset) == TokenAt(asset, KnownToken(ToLowerCase(asset)))

getAssetSymbol(asset) == getTokenInfo(asset).symbol

getAssetDecimals(asset) == getTokenInfo(asset).decimals

RECURSIVE StripLeadingZeros(_)
StripLeadingZeros(s) ==
  IF Len(s) > 0 /\ At(s, 1) = "0" THEN StripLeadingZeros(Slice(s, 1)) ELSE s

RECURSIVE StripTrailingZeros(_)
StripTrailingZeros(s) ==
  IF Len(s) > 0 /\ At(s, Len(s)) = "0" THEN StripTrailingZeros(SubSeq(s, 1, Len(s) - 1)) ELSE s

RECURSIVE PadStart(_, _, _)
PadStart(s, width, fill) == IF Len(s) >= width THEN s ELSE PadStart(fill \o s, width, fill)

\* BigInt(value): a sign and the magnitude's decimal digits ("" stands for
\* zero), or a throw for undefined and for text that is not a decimal integer.
BigIntDigits(value, body) ==
  IF value = Undefined THEN [throws |-> TRUE, neg |-> FALSE, digits |-> ""]
  ELSE IF value = "" THEN [throws |-> FALSE, neg |-> FALSE, digits |-> ""]
  ELSE IF AllDigits(body)
       THEN [throws |-> FALSE,
             neg |-> StartsWith(value, "-") /\ StripLeadingZeros(body) # "",
             digits |-> StripLeadingZeros(body)]
  ELSE [throws |-> TRUE, neg |-> FALSE, digits |-> ""]

BigIntOf(value) ==
  BigIntDigits(value,
    IF StartsWith(value, "-") \/ StartsWith(value, "+") THEN Slice(value, 1) ELSE value)

\* (n).toString() of a BigInt given as sign and magnitude digits
BigIntToString(neg, digits) ==
  IF digits = "" THEN "0" ELSE IF neg THEN "-" \o digits ELSE digits

\* the return statements of formatAmount
JoinAmount(wholePart, stripped, symbol) ==
  IF stripped = "" THEN wholePart \o " " \o symbol
  ELSE wholePart \o "." \o stripped \o " " \o symbol

\* amount / 10^decimals and amount % 10^decimals, truncating toward zero,
\* on the n digits of the magnitude
DivideAmount(amount, n, info) ==
  JoinAmount(
    BigIntToString(amount.neg, IF n > info.decimals
                               THEN SubSeq(amount.digits, 1, n - info.decimals) ELSE ""),
    StripTrailingZeros(
      PadStart(
        BigIntToString(amount.neg,
          StripLeadingZeros(IF n > info.decimals
                            THEN SubSeq(amount.digits, n - info.decimals + 1, n)
                            ELSE amount.digits)),
        info.decimals, "0")),
    info.symbol)

FormatParsed(atomicAmount, amount, info) ==
  IF amount.throws
  THEN (IF atomicAmount = Undefined THEN "undefined" ELSE atomicAmount) \o " (raw)"
  ELSE DivideAmount(amount, Len(amount.digits), info)

formatAmount(atomicAmount, asset) ==
  FormatParsed(atomicAmount, BigIntOf(atomicAmount), getTokenInfo(asset))

\* ------------------------------------------------------------------------
\* Bounded fetch client (src/utils/fetch-with-timeout.ts)
\* ------------------------------------------------------------------------
\* A thrown value: an Error with a message, or a value that is not an Error
\* (message is then what String(value) yields).
ErrorValue(isErr, msg) == [isError |-> isErr, message |-> msg]

NoFailure == ErrorValue(FALSE, NoError)

\* What the platform's fetch rejects with once controller.abort() has run.
AbortError == ErrorValue(TRUE, "This operation was aborted")

\* every Error classified transient
isRetryableError_AnyError(error) == error.isError

HasTransientWord(message) ==
  \/ Includes(message, "network")
  \/ Includes(message, "timeout")
  \/ Includes(message, "abort")
  \/ Includes(message, "econnreset")
  \/ Includes(message, "econnrefused")
  \/ Includes(message, "enotfound")
  \/ Includes(message, "socket")

isRetryableError(error) ==
  IF error.isError THEN HasTransientWord(ToLowerCase(error.message)) ELSE FALSE

NoResponse == [status |-> 0, header |-> "none", body |-> "none"]

LogResponse(status) == [status |-> status, error |-> NoFailure]

LogError(error) == [status |-> 0, error |-> error]

\* Time one settled request takes, in ms (the model's clock for latency).
RoundTripMs == 40

\* State of one fetchWithRetry call.  pc: "idle" before the call, "fetch"
\* while fetchWithTimeout awaits the request, "sleep" in the backoff delay,
\* "returned" / "thrown" once settled.  timer is the setTimeout of the
\* current fetchWithTimeout; calls counts fetchWithTimeout invocations;
\* waits lists the delays slept; elapsed is the wall-clock time consumed;
\* log lists how each request ended (a status, or the value it rejected with).
IdleCall ==
  [pc |-> "idle", attempt |-> 0, retries |-> 0, retryDelayMs |-> 0, timeoutMs |-> 0,
   timer |-> "none", calls |-> 0, waits |-> <<>>, elapsed |-> 0, log |-> <<>>,
   lastError |-> NoFailure, response |-> NoResponse]

\* fetchWithTimeout up to its await: arm the timer, issue the request.
fetchWithTimeoutStart(call) ==
  [call EXCEPT !.pc = "fetch", !.timer = "armed", !.calls = @ + 1]

\* fetchWithRetry up to its first await.
fetchWithRetryStart(retries, retryDelayMs, timeoutMs) ==
  LET c0 == [IdleCall EXCEPT !.retries = retries, !.retryDelayMs = retryDelayMs,
                             !.timeoutMs = timeoutMs]
  IN IF 0 <= retries
     THEN fetchWithTimeoutStart(c0)
     ELSE [c0 EXCEPT !.pc = "thrown", !.lastError = ErrorValue(TRUE, "Fetch failed")]

\* The catch block giving up one attempt early (attempt + 1 === retries)
fetchWithRetryCatch_GivesUpEarly(call, error, spent) ==
  IF ~isRetryableError(error) \/ call.attempt + 1 >= call.retries
  THEN [call EXCEPT !.pc = "thrown", !.elapsed = @ + spent,
          !.lastError = IF error.isError THEN error ELSE ErrorValue(TRUE, error.message),
          !.log = Append(@, LogError(error))]
  ELSE [call EXCEPT !.pc = "sleep", !.elapsed = @ + spent,
          !.lastError = IF error.isError THEN error ELSE ErrorValue(TRUE, error.message),
          !.log = Append(@, LogError(error)),
          !.waits = Append(@, call.retryDelayMs * (2 ^ call.attempt))]

\* The catch block sleeping retryDelayMs * 2^(attempt + 1)
fetchWithRetryCatch_DoubledDelay(call, error, spent) ==
  IF ~isRetryableError(error) \/ call.attempt = call.retries
  THEN [call EXCEPT !.pc = "thrown", !.elapsed = @ + spent,
          !.lastError = IF error.isError THEN error ELSE ErrorValue(TRUE, error.message),
          !.log = Append(@, LogError(error))]
  ELSE [call EXCEPT !.pc = "sleep", !.elapsed = @ + spent,
          !.lastError = IF error.isError THEN error ELSE ErrorValue(TRUE, error.message),
          !.log = Append(@, LogError(error)),
          !.waits = Append(@, call.retryDelayMs * (2 ^ (call.attempt + 1)))]

\* The catch block of fetchWithRetry, entered with the error fetchWithTimeout
\* rethrew after its finally cleared the timer.
fetchWithRetryCatch(call, error, spent) ==
  LET lastError == IF error.isError THEN error ELSE ErrorValue(TRUE, error.message)
      c1 == [call EXCEPT !.lastError = lastError, !.elapsed = @ + spent,
                         !.log = Append(@, LogError(error))]
  IN IF ~isRetryableError(error) \/ call.attempt = call.retries
     THEN [c1 EXCEPT !.pc = "thrown"]
     ELSE LET delay == call.retryDelayMs * (2 ^ call.attempt)
          IN [c1 EXCEPT !.pc = "sleep", !.waits = Append(@, delay)]

\* The request resolved with a response: finally clears the timer and
\* fetchWithRetry returns the response, whatever its status.
onFetchResolved(call, response) ==
  [call EXCEPT !.pc = "returned", !.timer = "cleared", !.response = response,
               !.elapsed = @ + RoundTripMs, !.log = Append(@, LogResponse(response.status))]

\* fetchWithTimeout without the finally block: a rejected request leaves
\* its timer armed
onFetchRejected_TimerLeft(call, error) ==
  fetchWithRetryCatch(call, error, RoundTripMs)

\* The request rejected with error before the timer fired.
onFetchRejected(call, error) ==
  fetchWithRetryCatch([call EXCEPT !.timer = "cleared"], error, RoundTripMs)

\* The timer fired after timeoutMs: controller.abort() makes the request
\* reject with the abort error; finally then clears the (spent) timer.
onTimeout(call) ==
  fetchWithRetryCatch([call EXCEPT !.timer = "fired"], AbortError, call.timeoutMs)

\* sleep(delay) resolved: attempt++ and the loop test.
onSleepDone(call) ==
  LET c1 == [call EXCEPT !.attempt = @ + 1, !.elapsed = @ + call.waits[Len(call.waits)]]
  IN IF c1.attempt <= c1.retries
     THEN fetchWithTimeoutStart(c1)
     ELSE [c1 EXCEPT !.pc = "thrown"]

\* ------------------------------------------------------------------------
\* Health checker (health-checker.ts)
\* ------------------------------------------------------------------------
NoNumber == -1

NotAString == "<not-a-string>"

NotAnInteger == -2

IsString(v) == v # Undefined /\ v # NotAString

\* A JSON object offered as a payment requirement.
Item(scheme, network, amount, payTo, asset, timeout) ==
  [scheme |-> scheme, network |-> network, maxAmountRequired |-> amount,
   payTo |-> payTo, asset |-> asset, maxTimeoutSeconds |-> timeout]

ReqUsdcBase ==
  Item("exact", "base", "10000", "0xPayToA", "0x833589fCD6eDb6E08f4c7C32D4f71b54bdA02913", 60)

ReqSolana == Item("exact", "solana", "2500000", "PayToB", "USDC", 300)

ReqNoAmount == Item("exact", "eip155:8453", Undefined, "0xPayToC", "0x4200000000000000000000000000000000000006", NoNumber)

BadNoPayTo == Item("exact", "base", "10000", Undefined, "USDC", 60)

BadAmountType == Item("exact", "base", NotAString, "0xPayToA", "USDC", 60)

\* PaymentRequirementsSchema.safeParse(item).success
PaymentRequirementsSchema(item) ==
  /\ IsString(item.scheme)
  /\ IsString(item.network)
  /\ (item.maxAmountRequired = Undefined \/ IsString(item.maxAmountRequired))
  /\ IsString(item.payTo)
  /\ (item.maxTimeoutSeconds = NoNumber \/ item.maxTimeoutSeconds >= 0)
  /\ IsString(item.asset)

\* What JSON.parse makes of a text: a throw, an array of elements, or one
\* value that is not an array (elems then holds that value).
JsonThrows == [throws |-> TRUE, isArray |-> FALSE, elems |-> <<>>]

JsonArray(elems) == [throws |-> FALSE, isArray |-> TRUE, elems |-> elems]

JsonObject(obj) == [throws |-> FALSE, isArray |-> FALSE, elems |-> <<obj>>]

\* The X-Payment headers of the model: what base64-decoding then JSON.parse
\* yields (b64) and what JSON.parse of the raw header yields (raw).
HeaderNames == {"none", "b64-one", "raw-object", "b64-invalid", "garbage"}

HeaderContent(name) ==
  CASE name = "b64-one" -> [present |-> TRUE, b64 |-> JsonArray(<<ReqUsdcBase>>), raw |-> JsonThrows]
    [] name = "raw-object" -> [present |-> TRUE, b64 |-> JsonThrows, raw |-> JsonObject(ReqSolana)]
    [] name = "b64-invalid" -> [present |-> TRUE, b64 |-> JsonArray(<<BadNoPayTo>>), raw |-> JsonThrows]
    [] name = "garbage" -> [present |-> TRUE, b64 |-> JsonThrows, raw |-> JsonThrows]
    [] OTHER -> [present |-> FALSE, b64 |-> JsonThrows, raw |-> JsonThrows]

\* The response bodies of the model: what response.json() yields.
BodyNames == {"not-json", "accepts-mixed", "no-accepts", "json-null"}

BodyContent(name) ==
  CASE name = "accepts-mixed" ->
         [throws |-> FALSE, isObject |-> TRUE, hasAccepts |-> TRUE,
          accepts |-> <<ReqNoAmount, BadAmountType, ReqSolana>>]
    [] name = "no-accepts" ->
         [throws |-> FALSE, isObject |-> TRUE, hasAccepts |-> FALSE, accepts |-> <<>>]
    [] name = "json-null" ->
         [throws |-> FALSE, isObject |-> FALSE, hasAccepts |-> FALSE, accepts |-> <<>>]
    [] OTHER ->
         [throws |-> TRUE, isObject |-> FALSE, hasAccepts |-> FALSE, accepts |-> <<>>]

\* items.filter(safeParse succeeds), in order
RECURSIVE ValidItems(_)
ValidItems(items) ==
  IF Len(items) = 0 THEN <<>>
  ELSE (IF PaymentRequirementsSchema(Head(items)) THEN <<Head(items)>> ELSE <<>>)
       \o ValidItems(Tail(items))

extractPaymentRequirements(data) ==
  LET items == IF data.isArray THEN data.elems ELSE <<data.elems[1]>>
  IN ValidItems(items)

\* parseXPaymentHeader after the base64 attempt yielded fromB64
RawHeaderPass(fromB64, header) ==
  IF Len(fromB64) > 0 THEN fromB64
  ELSE IF header.raw.throws THEN <<>>
  ELSE extractPaymentRequirements(header.raw)

parseXPaymentHeader(header) ==
  RawHeaderPass(IF header.b64.throws THEN <<>> ELSE extractPaymentRequirements(header.b64),
                header)

convertToPricingInfo(req) ==
  [scheme |-> req.scheme,
   network |-> req.network,
   maxAmountRequired |-> req.maxAmountRequired,
   formattedAmount |-> formatAmount(req.maxAmountRequired, req.asset),
   asset |-> req.asset,
   payTo |-> req.payTo,
   maxTimeoutSeconds |-> req.maxTimeoutSeconds]

RECURSIVE MapPricing(_)
MapPricing(reqs) ==
  IF Len(reqs) = 0 THEN <<>>
  ELSE <<convertToPricingInfo(Head(reqs))>> \o MapPricing(Tail(reqs))

HeaderOutcome(parsed) == [done |-> Len(parsed) > 0, requirements |-> parsed]

HeaderPass(header) ==
  HeaderOutcome(IF header.present THEN parseXPaymentHeader(header) ELSE <<>>)

\* extractPaymentInfoFromResponse up to its await: the header pass.
\* done = FALSE means the body has to be read.
extractFromHeader(response) == HeaderPass(HeaderContent(response.header))

\* extractPaymentInfoFromResponse after response.json() settled.
extractFromBody(bodyName) ==
  LET body == BodyContent(bodyName)
  IN IF body.throws THEN <<>>
     ELSE IF body.isObject /\ body.hasAccepts THEN ValidItems(body.accepts)
     ELSE <<>>

\* new Date().toISOString(): "YYYY-MM-DDTHH:MM:SS.sssZ"
toISOString(t) == [day |-> t.day, sep |-> "T", tod |-> t.tod, zone |-> "Z"]

HealthResult(isAlive, statusCode, latencyMs, error, checkedAt) ==
  [isAlive |-> isAlive, statusCode |-> statusCode, latencyMs |-> latencyMs,
   error |-> error, checkedAt |-> checkedAt]

CheckResult(health, requirements) ==
  [health |-> health, pricing |-> MapPricing(requirements),
   rawPaymentRequirements |-> requirements]

NoResult == CheckResult(HealthResult(FALSE, NoNumber, NoNumber, NoError, toISOString([day |-> 0, tod |-> 0])), <<>>)

\* response.ok alone
IsAliveStatus_OkOnly(status) == status >= 200 /\ status <= 299

\* response.ok || response.status === 402
IsAliveStatus(status) == (status >= 200 /\ status <= 299) \/ status = 402

\* One checkEndpoint call.  pc: "new" not called yet, "request" inside
\* fetchWithRetry, "body" awaiting response.json(), "done" settled.
NewProbe(url) ==
  [url |-> url, pc |-> "new", call |-> IdleCall, checkedAt |-> toISOString([day |-> 0, tod |-> 0]),
   result |-> NoResult]

\* checkEndpoint after validateUrl returned urlCheck
checkEndpointValidated(probe, urlCheck, timeoutMs, now) ==
  IF ~urlCheck.valid
  THEN [probe EXCEPT !.pc = "done",
          !.result = CheckResult(
             HealthResult(FALSE, NoNumber, NoNumber, urlCheck.error, toISOString(now)), <<>>)]
  ELSE [probe EXCEPT !.pc = "request", !.checkedAt = toISOString(now),
          !.call = fetchWithRetryStart(2, 500, timeoutMs)]

\* checkEndpoint without the validateUrl guard
checkEndpointStart_Unguarded(probe, timeoutMs, now) ==
  checkEndpointValidated(probe, [valid |-> TRUE, error |-> NoError], timeoutMs, now)

\* checkEndpoint up to its first await.
checkEndpointStart(probe, timeoutMs, now) ==
  checkEndpointValidated(probe, validateUrl(probe.url), timeoutMs, now)

\* checkEndpointSingle extracting pricing from a response of any status
checkEndpointSingleResponse_AnyStatus(probe, call, health, hdr) ==
  IF hdr.done
  THEN [probe EXCEPT !.pc = "done", !.call = call,
                     !.result = CheckResult(health, hdr.requirements)]
  ELSE [probe EXCEPT !.pc = "body", !.call = call,
                     !.result = CheckResult(health, <<>>)]

\* checkEndpointSingle with the response in hand: health, and the pricing
\* of a 402 (hdr is the header pass)
checkEndpointSingleResponse(probe, call, health, hdr) ==
  IF call.response.status = 402
  THEN IF hdr.done
       THEN [probe EXCEPT !.pc = "done", !.call = call,
                          !.result = CheckResult(health, hdr.requirements)]
       ELSE [probe EXCEPT !.pc = "body", !.call = call,
                          !.result = CheckResult(health, <<>>)]
  ELSE [probe EXCEPT !.pc = "done", !.call = call,
                     !.result = CheckResult(health, <<>>)]

\* checkEndpointSingle whose catch block records the message alone
checkEndpointSingleResume_ErrorAlone(probe, call) ==
  IF call.pc = "returned"
  THEN checkEndpointSingleResponse(probe, call,
         HealthResult(IsAliveStatus(call.response.status), call.response.status,
                      call.elapsed, NoError, probe.checkedAt),
         extractFromHeader(call.response))
  ELSE IF call.pc = "thrown"
  THEN [probe EXCEPT !.pc = "done", !.call = call,
          !.result = CheckResult(
             HealthResult(FALSE, NoNumber, NoNumber, call.lastError.message,
                          probe.checkedAt), <<>>)]
  ELSE [probe EXCEPT !.call = call]

\* checkEndpointSingle resumes with the settled fetchWithRetry call.
checkEndpointSingleResume(probe, call) ==
  IF call.pc = "returned"
  THEN checkEndpointSingleResponse(probe, call,
         HealthResult(IsAliveStatus(call.response.status), call.response.status,
                      call.elapsed, NoError, probe.checkedAt),
         extractFromHeader(call.response))
  ELSE IF call.pc = "thrown"
  THEN [probe EXCEPT !.pc = "done", !.call = call,
          !.result = CheckResult(
             HealthResult(FALSE, NoNumber, call.elapsed, call.lastError.message,
                          probe.checkedAt), <<>>)]
  ELSE [probe EXCEPT !.call = call]

\* the body pass with a body that is not JSON failing the whole check
checkEndpointBodyRead_ParseErrorFatal(probe) ==
  IF BodyContent(probe.call.response.body).throws
  THEN [probe EXCEPT !.pc = "done",
          !.result = CheckResult(
             HealthResult(FALSE, NoNumber, probe.result.health.latencyMs,
                          "Unexpected token", probe.checkedAt), <<>>)]
  ELSE [probe EXCEPT !.pc = "done",
          !.result = CheckResult(probe.result.health, extractFromBody(probe.call.response.body))]

\* response.json() settled: the body pass, then checkEndpointSingle returns.
checkEndpointBodyRead(probe) ==
  [probe EXCEPT !.pc = "done",
     !.result = CheckResult(probe.result.health, extractFromBody(probe.call.response.body))]


\* ------------------------------------------------------------------------
\* fetchPaymentRequirements (src/fetcher.ts)
\* ------------------------------------------------------------------------
\* requirements is <<>> for null and <<parsed JSON>> otherwise.
FprResult(requirements, statusCode, error) ==
  [requirements |-> requirements, statusCode |-> statusCode, error |-> error]

\* One fetchPaymentRequirements call.  pc: "new", "request", "done".
NewFpr(url) ==
  [url |-> url, pc |-> "new", timer |-> "none", calls |-> 0,
   result |-> FprResult(<<>>, 0, NoError)]

\* fetchPaymentRequirements after validateUrl returned urlCheck
fetchPaymentRequirementsValidated(call, urlCheck) ==
  IF ~urlCheck.valid
  THEN [call EXCEPT !.pc = "done",
          !.result = FprResult(<<>>, 0,
                       IF urlCheck.error = Undefined THEN "Invalid URL" ELSE urlCheck.error)]
  ELSE [call EXCEPT !.pc = "request", !.timer = "armed", !.calls = @ + 1]

\* fetchPaymentRequirements up to its await
fetchPaymentRequirementsStart(call) ==
  fetchPaymentRequirementsValidated(call, validateUrl(call.url))

\* the request resolved: clearTimeout, then the X-Payment header of a 402
fetchPaymentRequirementsResolved(call, response) ==
  LET header == HeaderContent(response.header)
      c1 == [call EXCEPT !.pc = "done", !.timer = "cleared"]
  IN IF response.status = 402 /\ header.present
     THEN IF ~header.b64.throws
          THEN [c1 EXCEPT !.result = FprResult(<<header.b64>>, response.status, NoError)]
          ELSE IF ~header.raw.throws
          THEN [c1 EXCEPT !.result = FprResult(<<header.raw>>, response.status, NoError)]
          ELSE [c1 EXCEPT !.result =
                  FprResult(<<>>, response.status, "Failed to parse X-Payment header")]
     ELSE [c1 EXCEPT !.result = FprResult(<<>>, response.status, NoError)]

\* the request rejected (the catch block); the timer is left as it is
fetchPaymentRequirementsRejected(call, error) ==
  [call EXCEPT !.pc = "done",
     !.result = FprResult(<<>>, 0, IF error.isError THEN error.message ELSE "Unknown error")]

\* the timer fired: controller.abort() rejects the request
fetchPaymentRequirementsTimeout(call) ==
  fetchPaymentRequirementsRejected([call EXCEPT !.timer = "fired"], AbortError)

\* ------------------------------------------------------------------------
\* Persistence layer (db/schema.ts, db/repository.ts)
\* ------------------------------------------------------------------------
\* The clock counts half days.  A TEXT timestamp is the record of its day,
\* the character after the date ("T" in ISO 8601, " " in SQLite's
\* datetime()), the half of the day and the zone suffix; SQLite compares
\* TEXT values character by character.
ClockTime(t) == [day |-> t \div 2, tod |-> t % 2]

\* datetime('now', '-<days> days') at clock t: "YYYY-MM-DD HH:MM:SS"
SqlDatetime(t, days) == [day |-> (t \div 2) - days, sep |-> " ", tod |-> t % 2, zone |-> ""]

TextLess(a, b) ==
  \/ a.day < b.day
  \/ a.day = b.day /\ a.sep = " " /\ b.sep = "T"
  \/ a.day = b.day /\ a.sep = b.sep /\ a.tod < b.tod

\* A column value: <<>> is NULL, <<v>> holds v.
SqlNull == <<>>

\* `value ?? null` as a statement argument
OrNull(value, undefined) == IF value = undefined THEN SqlNull ELSE <<value>>

\* COALESCE(excluded, current)
Coalesce(excluded, current) == IF excluded # SqlNull THEN excluded ELSE current

RECURSIVE Gcd(_, _)
Gcd(a, b) == IF b = 0 THEN a ELSE Gcd(b, a % b)

\* the REAL num / den, as a fraction in lowest terms
Real(num, den) == [num |-> num \div Gcd(num, den), den |-> den \div Gcd(num, den)]

EmptyStore ==
  [resources |-> {}, payment_requirements |-> {}, health_checks |-> {},
   resource_health |-> {}, index_runs |-> {},
   nextResource |-> 1, nextRequirement |-> 1, nextCheck |-> 1, nextRun |-> 1]

\* A metadata object is the set of its <<key, value>> pairs; NoMetadata is
\* the absent object.
NoMetadata == <<>>

\* An EnrichedResource handed to upsertResource
Enriched(url, name, description, category, source, metadata, pricing, health) ==
  [url |-> url, name |-> name, description |-> description, category |-> category,
   source |-> source, metadata |-> metadata, pricing |-> pricing, health |-> health]

\* INSERT INTO resources ... into a table whose url is not UNIQUE
UpsertResourceRow_NoConflict(store, resource, t) ==
  [store EXCEPT
     !.resources = @ \cup
       {[id |-> store.nextResource, url |-> resource.url,
         name |-> OrNull(resource.name, Undefined),
         description |-> OrNull(resource.description, Undefined),
         category |-> OrNull(resource.category, Undefined),
         source |-> resource.source,
         metadata |-> resource.metadata,
         firstSeenAt |-> SqlDatetime(t, 0), lastSeenAt |-> SqlDatetime(t, 0),
         updatedAt |-> SqlDatetime(t, 0)]},
     !.nextResource = @ + 1]

\* INSERT INTO resources ... ON CONFLICT(url) DO UPDATE SET ...
UpsertResourceRow(store, resource, t) ==
  IF \E r \in store.resources : r.url = resource.url
  THEN [store EXCEPT !.resources =
          { IF r.url = resource.url
            THEN [r EXCEPT !.name = Coalesce(OrNull(resource.name, Undefined), @),
                           !.description = Coalesce(OrNull(resource.description, Undefined), @),
                           !.category = Coalesce(OrNull(resource.category, Undefined), @),
                           !.metadata = Coalesce(resource.metadata, @),
                           !.lastSeenAt = SqlDatetime(t, 0),
                           !.updatedAt = SqlDatetime(t, 0)]
            ELSE r : r \in @ }]
  ELSE [store EXCEPT
          !.resources = @ \cup
            {[id |-> store.nextResource, url |-> resource.url,
              name |-> OrNull(resource.name, Undefined),
              description |-> OrNull(resource.description, Undefined),
              category |-> OrNull(resource.category, Undefined),
              source |-> resource.source,
              metadata |-> resource.metadata,
              firstSeenAt |-> SqlDatetime(t, 0), lastSeenAt |-> SqlDatetime(t, 0),
              updatedAt |-> SqlDatetime(t, 0)]},
          !.nextResource = @ + 1]

\* SELECT id FROM resources WHERE url = ?
SelectResourceId(store, url) == (CHOOSE r \in store.resources : r.url = url).id

\* the NOT NULL columns of payment_requirements reject the statement
RequirementRejected(pricing) ==
  pricing.maxAmountRequired = Undefined \/ pricing.maxTimeoutSeconds = NoNumber

SameRequirementKey(row, resourceId, pricing) ==
  row.resourceId = resourceId /\ row.network = pricing.network /\ row.asset = pricing.asset

\* INSERT INTO payment_requirements ... ON CONFLICT(resource_id, network,
\* asset) DO UPDATE SET ..., formatted_amount =
\* COALESCE(excluded.formatted_amount, formatted_amount)
upsertPaymentRequirementTx_CoalesceFormatted(store, resourceId, pricing) ==
  IF \E row \in store.payment_requirements : SameRequirementKey(row, resourceId, pricing)
  THEN [store EXCEPT !.payment_requirements =
          { IF SameRequirementKey(row, resourceId, pricing)
            THEN [row EXCEPT !.scheme = pricing.scheme,
                             !.maxAmountRequired = pricing.maxAmountRequired,
                             !.formattedAmount =
                               Coalesce(OrNull(pricing.formattedAmount, Undefined), @),
                             !.payTo = pricing.payTo,
                             !.maxTimeoutSeconds = pricing.maxTimeoutSeconds]
            ELSE row : row \in @ }]
  ELSE [store EXCEPT
          !.payment_requirements = @ \cup
            {[id |-> store.nextRequirement, resourceId |-> resourceId,
              scheme |-> pricing.scheme, network |-> pricing.network, asset |-> pricing.asset,
              maxAmountRequired |-> pricing.maxAmountRequired,
              formattedAmount |-> OrNull(pricing.formattedAmount, Undefined),
              payTo |-> pricing.payTo, maxTimeoutSeconds |-> pricing.maxTimeoutSeconds]},
          !.nextRequirement = @ + 1]

\* INSERT INTO payment_requirements ... ON CONFLICT(resource_id, network,
\* asset) DO NOTHING
upsertPaymentRequirementTx_KeepsFirst(store, resourceId, pricing) ==
  IF \E row \in store.payment_requirements : SameRequirementKey(row, resourceId, pricing)
  THEN store
  ELSE [store EXCEPT
          !.payment_requirements = @ \cup
            {[id |-> store.nextRequirement, resourceId |-> resourceId,
              scheme |-> pricing.scheme, network |-> pricing.network, asset |-> pricing.asset,
              maxAmountRequired |-> pricing.maxAmountRequired,
              formattedAmount |-> OrNull(pricing.formattedAmount, Undefined),
              payTo |-> pricing.payTo, maxTimeoutSeconds |-> pricing.maxTimeoutSeconds]},
          !.nextRequirement = @ + 1]

\* INSERT INTO payment_requirements ... ON CONFLICT(resource_id, network,
\* asset) DO UPDATE SET ...
upsertPaymentRequirementTx(store, resourceId, pricing) ==
  IF \E row \in store.payment_requirements : SameRequirementKey(row, resourceId, pricing)
  THEN [store EXCEPT !.payment_requirements =
          { IF SameRequirementKey(row, resourceId, pricing)
            THEN [row EXCEPT !.scheme = pricing.scheme,
                             !.maxAmountRequired = pricing.maxAmountRequired,
                             !.formattedAmount = OrNull(pricing.formattedAmount, Undefined),
                             !.payTo = pricing.payTo,
                             !.maxTimeoutSeconds = pricing.maxTimeoutSeconds]
            ELSE row : row \in @ }]
  ELSE [store EXCEPT
          !.payment_requirements = @ \cup
            {[id |-> store.nextRequirement, resourceId |-> resourceId,
              scheme |-> pricing.scheme, network |-> pricing.network, asset |-> pricing.asset,
              maxAmountRequired |-> pricing.maxAmountRequired,
              formattedAmount |-> OrNull(pricing.formattedAmount, Undefined),
              payTo |-> pricing.payTo, maxTimeoutSeconds |-> pricing.maxTimeoutSeconds]},
          !.nextRequirement = @ + 1]

\* the row insertHealthCheckTx writes, with the AUTOINCREMENT id
HealthCheckRow(id, resourceId, health) ==
  [id |-> id, resourceId |-> resourceId,
   isAlive |-> IF health.isAlive THEN 1 ELSE 0,
   statusCode |-> OrNull(health.statusCode, NoNumber),
   latencyMs |-> OrNull(health.latencyMs, NoNumber),
   error |-> OrNull(health.error, Undefined),
   checkedAt |-> health.checkedAt]

\* INSERT INTO health_checks keyed by resource_id, replacing its rows
insertHealthCheckTx_Replace(store, resourceId, health) ==
  [store EXCEPT
     !.health_checks = { h \in @ : h.resourceId # resourceId }
                         \cup {HealthCheckRow(store.nextCheck, resourceId, health)},
     !.nextCheck = @ + 1]

\* INSERT INTO health_checks (...) VALUES (...)
insertHealthCheckTx(store, resourceId, health) ==
  [store EXCEPT
     !.health_checks = @ \cup {HealthCheckRow(store.nextCheck, resourceId, health)},
     !.nextCheck = @ + 1]

\* the rows of WHERE resource_id = ? AND checked_at >= datetime('now', '-7 days')
ChecksInWindow(checks, resourceId, cutoff) ==
  { h \in checks : h.resourceId = resourceId /\ ~TextLess(h.checkedAt, cutoff) }

RECURSIVE SumLatency(_)
SumLatency(rows) ==
  IF rows = {} THEN 0
  ELSE SumLatency(rows \ {CHOOSE h \in rows : TRUE}) + (CHOOSE h \in rows : TRUE).latencyMs[1]

\* AVG(CASE WHEN latency_ms IS NOT NULL THEN latency_ms END)
AvgLatency(timed) ==
  IF timed = {} THEN SqlNull ELSE <<Real(SumLatency(timed), Cardinality(timed))>>

\* COUNT(*), SUM(is_alive = 1), AVG(latency_ms), and uptime7d of them
WindowStats(rows) ==
  [checkCount7d |-> Cardinality(rows),
   uptime7d |-> IF Cardinality(rows) > 0
                THEN <<Real(Cardinality({ h \in rows : h.isAlive = 1 }) * 100, Cardinality(rows))>>
                ELSE SqlNull,
   avgLatency7d |-> AvgLatency({ h \in rows : h.latencyMs # SqlNull })]

\* the row updateResourceHealthTx writes
ResourceHealthRow(resourceId, health, stats) ==
  [resourceId |-> resourceId,
   isAlive |-> IF health.isAlive THEN 1 ELSE 0,
   statusCode |-> OrNull(health.statusCode, NoNumber),
   latencyMs |-> OrNull(health.latencyMs, NoNumber),
   error |-> OrNull(health.error, Undefined),
   checkedAt |-> health.checkedAt,
   uptime7d |-> stats.uptime7d,
   avgLatency7d |-> stats.avgLatency7d,
   checkCount7d |-> stats.checkCount7d]

\* INSERT INTO resource_health ... ON CONFLICT(resource_id) DO UPDATE SET ...
UpsertResourceHealthRow(store, row) ==
  [store EXCEPT !.resource_health = { r \in @ : r.resourceId # row.resourceId } \cup {row}]

updateResourceHealthTx(store, resourceId, health, t) ==
  UpsertResourceHealthRow(store,
    ResourceHealthRow(resourceId, health,
      WindowStats(ChecksInWindow(store.health_checks, resourceId, SqlDatetime(t, 7)))))

\* DELETE FROM health_checks WHERE checked_at < datetime('now', '-N days')
cleanupOldHealthChecks(store, daysToKeep, t) ==
  [store EXCEPT !.health_checks =
     { h \in @ : ~TextLess(h.checkedAt, SqlDatetime(t, daysToKeep)) }]

\* the rows left once the resources `gone` are deleted while foreign keys
\* are not enforced for resource_health
Cascade_KeepsAggregates(store, gone) ==
  [store EXCEPT
     !.resources = { r \in @ : r.id \notin gone },
     !.payment_requirements = { p \in @ : p.resourceId \notin gone },
     !.health_checks = { h \in @ : h.resourceId \notin gone }]

\* the rows ON DELETE CASCADE leaves once the resources `gone` are deleted
Cascade(store, gone) ==
  [store EXCEPT
     !.resources = { r \in @ : r.id \notin gone },
     !.payment_requirements = { p \in @ : p.resourceId \notin gone },
     !.health_checks = { h \in @ : h.resourceId \notin gone },
     !.resource_health = { r \in @ : r.resourceId \notin gone }]

\* DELETE FROM resources WHERE last_seen_at < datetime('now', '-N days')
cleanupStaleResources(store, daysUnseen, t) ==
  Cascade(store,
    { r.id : r \in { x \in store.resources : TextLess(x.lastSeenAt, SqlDatetime(t, daysUnseen)) } })

\* One upsertResource call.  pc: "idle", or the statement it awaits:
\* "resource", "pricing", "health", "aggregate", "commit".  work is what the
\* open transaction sees; log lists the statements executed.
IdleTx ==
  [pc |-> "idle", resource |-> Enriched("", Undefined, Undefined, Undefined, "", NoMetadata, <<>>, NoResult.health),
   work |-> EmptyStore, resourceId |-> 0, k |-> 1, log |-> <<>>]

\* db.transaction("write"), randomUUID(), JSON.stringify
upsertResourceBegin(store, resource) ==
  [IdleTx EXCEPT !.pc = "resource", !.resource = resource, !.work = store]

\* the resource statement, the SELECT of the id, and a DELETE of the
\* resource's pricing rows ahead of the loop
upsertResourceRowDone_ReplacesPricing(tx, work) ==
  [tx EXCEPT !.work = [work EXCEPT !.payment_requirements =
                         { p \in @ : p.resourceId # SelectResourceId(work, tx.resource.url) }],
             !.resourceId = SelectResourceId(work, tx.resource.url),
             !.pc = IF Len(tx.resource.pricing) > 0 THEN "pricing" ELSE "health",
             !.log = Append(@, "resource")]

\* the resource statement and the SELECT of the id
upsertResourceRowDone(tx, work) ==
  [tx EXCEPT !.work = work,
             !.resourceId = SelectResourceId(work, tx.resource.url),
             !.pc = IF Len(tx.resource.pricing) > 0 THEN "pricing" ELSE "health",
             !.log = Append(@, "resource")]

\* one turn of `for (const pricing of resource.pricing)`
upsertResourcePricingDone(tx) ==
  [tx EXCEPT !.work = upsertPaymentRequirementTx(@, tx.resourceId, tx.resource.pricing[tx.k]),
             !.k = @ + 1,
             !.pc = IF tx.k < Len(tx.resource.pricing) THEN "pricing" ELSE "health",
             !.log = Append(@, "pricing")]

upsertResourceHealthDone(tx) ==
  [tx EXCEPT !.work = insertHealthCheckTx(@, tx.resourceId, tx.resource.health),
             !.pc = "aggregate",
             !.log = Append(@, "history")]

upsertResourceAggregateDone(tx, t) ==
  [tx EXCEPT !.work = updateResourceHealthTx(@, tx.resourceId, tx.resource.health, t),
             !.pc = "commit",
             !.log = Append(@, "aggregate")]

\* tx.close() on a transaction that holds its writes back
Rollback_KeepsWrites(store, tx) == tx.work

\* tx.close() on a transaction that was not committed: its writes are gone
Rollback(store, tx) == store

\* tx.commit()
Commit(store, tx) == tx.work

\* INSERT INTO index_runs (started_at, ..., status) VALUES (datetime('now'),
\* ..., 'running'); the id is the AUTOINCREMENT rowid
startIndexRun(store, t) ==
  [store EXCEPT
     !.index_runs = @ \cup
       {[id |-> store.nextRun, startedAt |-> SqlDatetime(t, 0), completedAt |-> SqlNull,
         totalResources |-> SqlNull, aliveCount |-> SqlNull, deadCount |-> SqlNull,
         avgLatencyMs |-> SqlNull, status |-> "running", error |-> SqlNull]},
     !.nextRun = @ + 1]

\* Number(result.lastInsertRowid) of that INSERT
LastInsertRowid(store) == store.nextRun - 1

\* UPDATE index_runs SET ..., status = 'completed' without WHERE
completeIndexRun_AllRows(store, runId, summary, t) ==
  [store EXCEPT !.index_runs =
     { [r EXCEPT !.completedAt = <<SqlDatetime(t, 0)>>,
                 !.totalResources = <<summary.totalResources>>,
                 !.aliveCount = <<summary.aliveCount>>,
                 !.deadCount = <<summary.deadCount>>,
                 !.avgLatencyMs = OrNull(summary.avgLatencyMs, NoNumber),
                 !.status = "completed"] : r \in @ }]

\* UPDATE index_runs SET completed_at = datetime('now'), ..., status =
\* 'completed' WHERE id = ?
completeIndexRun(store, runId, summary, t) ==
  [store EXCEPT !.index_runs =
     { IF r.id = runId
       THEN [r EXCEPT !.completedAt = <<SqlDatetime(t, 0)>>,
                      !.totalResources = <<summary.totalResources>>,
                      !.aliveCount = <<summary.aliveCount>>,
                      !.deadCount = <<summary.deadCount>>,
                      !.avgLatencyMs = OrNull(summary.avgLatencyMs, NoNumber),
                      !.status = "completed"]
       ELSE r : r \in @ }]

\* UPDATE index_runs SET completed_at = datetime('now'), status = 'failed'
\* WHERE id = ?, the message dropped
failIndexRun_NoMessage(store, runId, error, t) ==
  [store EXCEPT !.index_runs =
     { IF r.id = runId
       THEN [r EXCEPT !.completedAt = <<SqlDatetime(t, 0)>>, !.status = "failed"]
       ELSE r : r \in @ }]

\* UPDATE index_runs SET completed_at = datetime('now'), status = 'failed',
\* error = ? WHERE id = ?
failIndexRun(store, runId, error, t) ==
  [store EXCEPT !.index_runs =
     { IF r.id = runId
       THEN [r EXCEPT !.completedAt = <<SqlDatetime(t, 0)>>,
                      !.status = "failed",
                      !.error = <<error>>]
       ELSE r : r \in @ }]

\* ------------------------------------------------------------------------
\* Indexer (indexer.ts)
\* ------------------------------------------------------------------------
\* One entry of `accepts`: a payment requirement and its optional description
Accept(req, description) ==
  [scheme |-> req.scheme, network |-> req.network,
   maxAmountRequired |-> req.maxAmountRequired, payTo |-> req.payTo, asset |-> req.asset,
   maxTimeoutSeconds |-> req.maxTimeoutSeconds, description |-> description]

\* DiscoveredResourceSchema: the fields the indexer reads
DiscoveredResource(url, accepts, metadata) ==
  [resource |-> url, accepts |-> accepts, metadata |-> metadata]

\* EcosystemServiceSchema
EcosystemService(name, url, description, category) ==
  [name |-> name, url |-> url, description |-> description, category |-> category]

\* PartnerMetadataSchema; baseUrl is facilitator?.baseUrl
PartnerMetadata(name, description, category, websiteUrl, baseUrl) ==
  [name |-> name, description |-> description, category |-> category,
   websiteUrl |-> websiteUrl, baseUrl |-> baseUrl]

\* checkResult?.health ?? { isAlive: false, error: "Health check skipped",
\* checkedAt: new Date().toISOString() }
HealthOrPlaceholder(checkResult, t) ==
  IF checkResult # <<>> THEN checkResult[1].health
  ELSE HealthResult(FALSE, NoNumber, NoNumber, "Health check skipped", toISOString(ClockTime(t)))

\* resource.accepts.map((a) => ({ scheme, network, maxAmountRequired, asset,
\* payTo, maxTimeoutSeconds }))
AcceptsPricing(accepts) ==
  [k \in DOMAIN accepts |->
     [scheme |-> accepts[k].scheme,
      network |-> accepts[k].network,
      maxAmountRequired |-> accepts[k].maxAmountRequired,
      formattedAmount |-> Undefined,
      asset |-> accepts[k].asset,
      payTo |-> accepts[k].payTo,
      maxTimeoutSeconds |-> accepts[k].maxTimeoutSeconds]]

\* partnerMetadata?.<field>
PartnerField(partnerMetadata, field) ==
  IF partnerMetadata = <<>> THEN Undefined ELSE partnerMetadata[1][field]

\* checkResult?.pricing ?? []
PricingOrNone(checkResult) == IF checkResult # <<>> THEN checkResult[1].pricing ELSE <<>>

enrichDiscoveredResource(resource, checkResult, partnerMetadata, t) ==
  Enriched(resource.resource,
           PartnerField(partnerMetadata, "name"),
           IF PartnerField(partnerMetadata, "description") # Undefined
           THEN PartnerField(partnerMetadata, "description")
           ELSE IF Len(resource.accepts) > 0 THEN resource.accepts[1].description
                ELSE Undefined,
           PartnerField(partnerMetadata, "category"),
           "discovery_api",
           resource.metadata,
           IF Len(PricingOrNone(checkResult)) > 0
           THEN checkResult[1].pricing
           ELSE AcceptsPricing(resource.accepts),
           HealthOrPlaceholder(checkResult, t))

\* metadata: { slug, logoUrl, websiteUrl, facilitatorInfo }
PartnerObject(partner) ==
  {<<"websiteUrl", partner.websiteUrl>>, <<"facilitatorInfo", partner.baseUrl>>}

\* for a partner with a facilitator baseUrl (the caller tests it first)
enrichPartnerMetadata(partner, checkResult, t) ==
  Enriched(partner.baseUrl, partner.name, partner.description, partner.category,
           "partners_data", <<PartnerObject(partner)>>, PricingOrNone(checkResult),
           HealthOrPlaceholder(checkResult, t))

enrichEcosystemService(service, checkResult, t) ==
  Enriched(service.url, service.name, service.description, service.category,
           "ecosystem", <<{}>>, PricingOrNone(checkResult),
           HealthOrPlaceholder(checkResult, t))

\* urlsToCheck: the URLs of the three lists, in the order pushed
RECURSIVE FacilitatorUrls(_)
FacilitatorUrls(partners) ==
  IF partners = <<>> THEN <<>>
  ELSE (IF Head(partners).baseUrl # Undefined THEN <<Head(partners).baseUrl>> ELSE <<>>)
         \o FacilitatorUrls(Tail(partners))

UrlsToCheck(fetchResult) ==
  [k \in DOMAIN fetchResult.discoveryResources |-> fetchResult.discoveryResources[k].resource]
    \o [k \in DOMAIN fetchResult.ecosystemServices |-> fetchResult.ecosystemServices[k].url]
    \o FacilitatorUrls(fetchResult.partnerMetadata)

\* [...new Set(list)]: the first occurrence of each element, in order
RECURSIVE SetOrder(_, _)
SetOrder(list, seen) ==
  IF list = <<>> THEN <<>>
  ELSE IF Head(list) \in seen THEN SetOrder(Tail(list), seen)
       ELSE <<Head(list)>> \o SetOrder(Tail(list), seen \cup {Head(list)})

\* urlsToCheck handed on as it is
UniqueUrls_Repeated(fetchResult) == UrlsToCheck(fetchResult)

UniqueUrls(fetchResult) == SetOrder(UrlsToCheck(fetchResult), {})

\* checkResults.get(url)
MapGet(map, key) == IF key \in DOMAIN map THEN <<map[key]>> ELSE <<>>

\* partnerByUrl.get(url): the last partner set under its websiteUrl or its
\* facilitator baseUrl
PartnerByUrl(partners, url) ==
  IF \E k \in DOMAIN partners : url \in {partners[k].websiteUrl, partners[k].baseUrl}
  THEN <<partners[CHOOSE k \in DOMAIN partners :
                    /\ url \in {partners[k].websiteUrl, partners[k].baseUrl}
                    /\ \A j \in DOMAIN partners :
                          url \in {partners[j].websiteUrl, partners[j].baseUrl} => j <= k]>>
  ELSE <<>>

\* the loop over discoveryResources: every entry is enriched and pushed
EnrichDiscovery(fetchResult, checkResults, t) ==
  [k \in DOMAIN fetchResult.discoveryResources |->
     enrichDiscoveredResource(
       fetchResult.discoveryResources[k],
       MapGet(checkResults, fetchResult.discoveryResources[k].resource),
       PartnerByUrl(fetchResult.partnerMetadata, fetchResult.discoveryResources[k].resource),
       t)]

Urls(resources) == { resources[k].url : k \in DOMAIN resources }

\* the loop over ecosystemServices without the test of processedUrls
RECURSIVE EnrichEcosystem_Unchecked(_, _, _, _)
EnrichEcosystem_Unchecked(services, enriched, checkResults, t) ==
  IF services = <<>> THEN enriched
  ELSE EnrichEcosystem_Unchecked(
         Tail(services),
         Append(enriched,
                enrichEcosystemService(Head(services),
                                       MapGet(checkResults, Head(services).url), t)),
         checkResults, t)

\* the loop over ecosystemServices: skipped if the URL is in processedUrls
RECURSIVE EnrichEcosystem(_, _, _, _)
EnrichEcosystem(services, enriched, checkResults, t) ==
  IF services = <<>> THEN enriched
  ELSE EnrichEcosystem(
         Tail(services),
         IF Head(services).url \notin Urls(enriched)
         THEN Append(enriched,
                     enrichEcosystemService(Head(services),
                                            MapGet(checkResults, Head(services).url), t))
         ELSE enriched,
         checkResults, t)

\* the loop over partnerMetadata: facilitators whose baseUrl is not processed
RECURSIVE EnrichPartners(_, _, _, _)
EnrichPartners(partners, enriched, checkResults, t) ==
  IF partners = <<>> THEN enriched
  ELSE EnrichPartners(
         Tail(partners),
         IF Head(partners).baseUrl # Undefined /\ Head(partners).baseUrl \notin Urls(enriched)
         THEN Append(enriched,
                     enrichPartnerMetadata(Head(partners),
                                           MapGet(checkResults, Head(partners).baseUrl), t))
         ELSE enriched,
         checkResults, t)

\* enrichedResources after the three loops
EnrichAll(fetchResult, checkResults, t) ==
  EnrichPartners(
    fetchResult.partnerMetadata,
    EnrichEcosystem(fetchResult.ecosystemServices,
                    EnrichDiscovery(fetchResult, checkResults, t), checkResults, t),
    checkResults, t)

RECURSIVE SumOf(_)
SumOf(numbers) == IF numbers = <<>> THEN 0 ELSE Head(numbers) + SumOf(Tail(numbers))

\* Math.round of a non-negative quotient
RoundDiv(num, den) == (2 * num + den) \div (2 * den)

\* latencies of the alive resources that have one
AliveLatencies(resources) ==
  SelectSeq([k \in DOMAIN resources |->
               IF resources[k].health.isAlive THEN resources[k].health.latencyMs ELSE NoNumber],
            LAMBDA l : l # NoNumber)

\* Math.min(...latencies), Math.max(...latencies) of a non-empty list
MinOf(numbers) ==
  CHOOSE m \in {numbers[k] : k \in DOMAIN numbers} : \A k \in DOMAIN numbers : m <= numbers[k]

MaxOf(numbers) ==
  CHOOSE m \in {numbers[k] : k \in DOMAIN numbers} : \A k \in DOMAIN numbers : m >= numbers[k]

\* resource.category ?? "Uncategorized"
CategoryOrUncategorized(resource) ==
  IF resource.category = Undefined THEN "Uncategorized" ELSE resource.category

\* byCategory after `for (const resource of resources)`
CountByCategory(resources) ==
  [c \in {CategoryOrUncategorized(resources[k]) : k \in DOMAIN resources} |->
     Cardinality({k \in DOMAIN resources : CategoryOrUncategorized(resources[k]) = c})]

\* the latencies of every resource that has one, alive or not
AllLatencies(resources) ==
  SelectSeq([k \in DOMAIN resources |-> resources[k].health.latencyMs],
            LAMBDA l : l # NoNumber)

\* calculateSummary with the latency figures taken over all resources
calculateSummary_AllLatencies(resources) ==
  [totalResources |-> Len(resources),
   aliveCount |-> Len(SelectSeq(resources, LAMBDA r : r.health.isAlive)),
   deadCount |-> Len(resources) - Len(SelectSeq(resources, LAMBDA r : r.health.isAlive)),
   avgLatencyMs |-> IF Len(AllLatencies(resources)) > 0
                    THEN RoundDiv(SumOf(AllLatencies(resources)), Len(AllLatencies(resources)))
                    ELSE NoNumber,
   minLatencyMs |-> IF Len(AllLatencies(resources)) > 0
                    THEN MinOf(AllLatencies(resources)) ELSE NoNumber,
   maxLatencyMs |-> IF Len(AllLatencies(resources)) > 0
                    THEN MaxOf(AllLatencies(resources)) ELSE NoNumber,
   byCategory |-> CountByCategory(resources)]

\* the counts, latency figures and byCategory of calculateSummary
calculateSummary(resources) ==
  [totalResources |-> Len(resources),
   aliveCount |-> Len(SelectSeq(resources, LAMBDA r : r.health.isAlive)),
   deadCount |-> Len(resources) - Len(SelectSeq(resources, LAMBDA r : r.health.isAlive)),
   avgLatencyMs |-> IF Len(AliveLatencies(resources)) > 0
                    THEN RoundDiv(SumOf(AliveLatencies(resources)), Len(AliveLatencies(resources)))
                    ELSE NoNumber,
   minLatencyMs |-> IF Len(AliveLatencies(resources)) > 0
                    THEN MinOf(AliveLatencies(resources)) ELSE NoNumber,
   maxLatencyMs |-> IF Len(AliveLatencies(resources)) > 0
                    THEN MaxOf(AliveLatencies(resources)) ELSE NoNumber,
   byCategory |-> CountByCategory(resources)]

\* ------------------------------------------------------------------------
\* The network: each URL answers by a script.  The n-th request to it ends
\* as fails[n] says, and is answered with `final` once fails is used up.
\*   "T" rejects with a transient Error     "N" rejects with another Error
\*   "X" rejects with a value that is no Error
\*   "H" never settles (the caller's timer ends it)
\* ------------------------------------------------------------------------
FailKinds == {"T", "N", "X", "H"}

Response(status, header, body) == [status |-> status, header |-> header, body |-> body]

Script(fails, final) == [fails |-> fails, final |-> final]

StubEntry(script, n) == IF n <= Len(script.fails) THEN script.fails[n] ELSE "R"

StubError(kind, n) ==
  CASE kind = "T" -> ErrorValue(TRUE, "read ECONNRESET #" \o NumToString(n))
    [] kind = "N" -> ErrorValue(TRUE, "certificate has expired #" \o NumToString(n))
    [] OTHER -> ErrorValue(FALSE, "boom #" \o NumToString(n))

\* Scripts for a direct fetchWithRetry call: transient failures, ended or
\* not by one failure of another kind (the call ends at the first of those)
FailPrefixes ==
  UNION { { f \in [1..n -> FailKinds] : \A k \in 1..(n - 1) : f[k] \in {"T", "H"} } :
          n \in 0..MaxFailures }

RetryResponses == { Response(s, "none", "none") : s \in {200, 404, 500} }

RetryScripts == { Script(f, r) : f \in FailPrefixes, r \in RetryResponses }

\* Scripts for a direct checkEndpoint / fetchPaymentRequirements call
ProbeFails == { <<>>, <<"T">>, <<"H", "T">>, <<"T", "H", "T">>, <<"N">>, <<"T", "X">> }

ProbeResponses ==
  { Response(s, "none", "none") : s \in {200, 204, 299, 300, 401, 404, 500} }
    \cup { Response(200, "b64-one", "accepts-mixed") }
    \cup { Response(402, h, b) : h \in HeaderNames, b \in BodyNames }

ProbeScripts == { Script(f, r) : f \in ProbeFails, r \in ProbeResponses }

\* The endpoints a checkEndpoints run meets
BatchPool ==
  { "https://a.example/api", "https://b.example/api", "https://c.example/api",
    "https://d.example/api", "https://e.example/api", "http://a.example/api",
    "https://10.0.0.1/api" }

BatchEndpoints ==
  [u \in BatchPool |->
     CASE u = "https://a.example/api" -> Script(<<>>, Response(402, "none", "accepts-mixed"))
       [] u = "https://b.example/api" -> Script(<<"T">>, Response(402, "garbage", "not-json"))
       [] u = "https://c.example/api" -> Script(<<>>, Response(404, "none", "none"))
       [] u = "https://d.example/api" -> Script(<<"N">>, Response(200, "none", "none"))
       [] u = "https://e.example/api" -> Script(<<"H", "H", "H">>, Response(200, "none", "none"))
       [] OTHER -> Script(<<>>, Response(200, "b64-one", "none"))]

UrlLists == UNION { [1..n -> BatchPool] : n \in 0..MaxUrls }

\* ------------------------------------------------------------------------
\* The callers.  op: the entry point called ("none" before the call);
\* rcall: a direct fetchWithRetry call; fpr: a fetchPaymentRequirements
\* call; urls, concurrency, i, results: checkEndpoints' arguments, loop
\* index and Map; hcPc: "idle", "awaiting" (at await Promise.all),
\* "returned"; probes[j]: the checkEndpoint call for urls[j] (or the one
\* direct call); endpoints: the script of each URL; wire: the URLs a request
\* has been issued to.
\* ------------------------------------------------------------------------
VARIABLES op, endpoints, rcall, fpr, urls, concurrency, i, hcPc, probes, results, wire

nvars == <<op, endpoints, rcall, fpr, urls, concurrency, i, hcPc, probes, results, wire>>

\* The store and its callers.  now: the clock, in half days; ticks: how often
\* it advanced; db: the committed tables; tx: the upsertResource call in
\* progress; last: the last call, the tables before it and how it ended.
VARIABLES now, ticks, db, tx, last

svars == <<now, ticks, db, tx, last>>

\* ------------------------------------------------------------------------
\* The indexer run.  ix: the position of runIndexer and persistToDatabase
\* and their local variables.  calls[c]: the upsertResource call of the
\* concurrent caller c; committed: the callers whose call returned, in the
\* order of their commits.
\* ------------------------------------------------------------------------
VARIABLES ix, calls, committed

ivars == <<ix>>

cvars == <<calls, committed>>

\* A call of one of the pure functions: its name, arguments and result.
VARIABLES pure

pvars == <<pure>>

\* The database client singleton (db/client.ts).  dbClient and currentDbPath
\* are the module's variables: the number of the client (NoClient for null)
\* and its resolved path ("" for null).  clients[n] is the n-th client that
\* createClient returned: its url and whether it is open.  dbCall is the
\* last call of getDatabase or closeDatabase, with the state before it.
VARIABLES dbClient, currentDbPath, clients, dbCall

hvars == <<dbClient, currentDbPath, clients, dbCall>>

vars == <<nvars, svars, ivars, cvars, pvars, hvars>>

RetryUrl == "https://a.example/api"

InitNetwork ==
  /\ op = "none"
  /\ endpoints = <<>>
  /\ rcall = IdleCall
  /\ fpr = NewFpr(RetryUrl)
  /\ urls = <<>>
  /\ concurrency = 1
  /\ i = 0
  /\ hcPc = "idle"
  /\ probes = <<>>
  /\ results = <<>>
  /\ wire = {}

Call(name, resource, outcome, id, error, before, log) ==
  [op |-> name, resource |-> resource, outcome |-> outcome, id |-> id, error |-> error,
   before |-> before, log |-> log]

InitStore ==
  /\ now = 0
  /\ ticks = 0
  /\ db = EmptyStore
  /\ tx = IdleTx
  /\ last = Call("none", IdleTx.resource, "returned", 0, NoError, EmptyStore, <<>>)

\* what fetchResources resolved with
FetchResult(discoveryResources, ecosystemServices, partnerMetadata) ==
  [discoveryResources |-> discoveryResources, ecosystemServices |-> ecosystemServices,
   partnerMetadata |-> partnerMetadata]

NoSummary ==
  [totalResources |-> 0, aliveCount |-> 0, deadCount |-> 0, avgLatencyMs |-> NoNumber,
   minLatencyMs |-> NoNumber, maxLatencyMs |-> NoNumber, byCategory |-> [c \in {} |-> 0]]

\* runIndexer not called: pc "idle"; then "checking" (at await
\* checkEndpoints), "start" (at await startIndexRun), "loop" and "upserting"
\* (at await upsertResource for resources[k]), "returned", "thrown".
IdleRun ==
  [pc |-> "idle", runs |-> 0, fetchResult |-> FetchResult(<<>>, <<>>, <<>>),
   skipHealthChecks |-> FALSE, persistToDb |-> FALSE, uniqueUrls |-> <<>>,
   checkResults |-> <<>>, resources |-> <<>>, summary |-> NoSummary,
   runId |-> 0, k |-> 0, error |-> NoError]

InitIndexer == ix = IdleRun

\* a caller that has not called: pc "idle"; then "begin" (at await
\* db.transaction), "running", "returned", "rejected"
IdleCaller == [pc |-> "idle", resource |-> IdleTx.resource, id |-> 0, error |-> NoError]

MaxCallers == 2

Callers == 1..MaxCallers

InitCallers ==
  /\ calls = [c \in Callers |-> IdleCaller]
  /\ committed = <<>>

NoCall == [fn |-> "none", args |-> <<>>, result |-> <<>>]

InitPure == pure = NoCall

NoClient == 0

\* the module variables and the clients created so far
ModuleState(client, path, all) == [dbClient |-> client, currentDbPath |-> path, clients |-> all]

NoDbCall ==
  [fn |-> "none", dbPath |-> "", outcome |-> "returned", result |-> NoClient,
   before |-> ModuleState(NoClient, "", <<>>)]

InitHandle ==
  /\ dbClient = NoClient
  /\ currentDbPath = ""
  /\ clients = <<>>
  /\ dbCall = NoDbCall

Init == InitNetwork /\ InitStore /\ InitIndexer /\ InitCallers /\ InitPure /\ InitHandle

ProbeTimeoutMs == 10000

ProbeClock == [day |-> 0, tod |-> 0]

Min(a, b) == IF a < b THEN a ELSE b

\* urls.slice(i, i + concurrency + 1)
BatchIndices_OneMore(start, conc, n) == (start + 1)..Min(start + conc + 1, n)

\* indices (1-based) of urls.slice(i, i + concurrency)
BatchIndices(start, conc, n) == (start + 1)..Min(start + conc, n)

\* batch.map(async (url) => await checkEndpoint(url, ...)): every call of
\* the batch runs up to its first await.
LaunchBatch(ps, start, conc) ==
  [j \in DOMAIN ps |->
     IF j \in BatchIndices(start, conc, Len(ps))
     THEN checkEndpointStart(ps[j], ProbeTimeoutMs, ProbeClock)
     ELSE ps[j]]

\* Promise.race in place of Promise.all
BatchSettled_Any(ps, start, conc) ==
  \E j \in BatchIndices(start, conc, Len(ps)) : ps[j].pc = "done"

\* Promise.all(batchPromises) is fulfilled
BatchSettled(ps, start, conc) ==
  \A j \in BatchIndices(start, conc, Len(ps)) : ps[j].pc = "done"

\* results.set(url, result) only for results that are alive
RECURSIVE RecordBatch_AliveOnly(_, _, _, _)
RecordBatch_AliveOnly(res, ps, from, to) ==
  IF from > to THEN res
  ELSE RecordBatch_AliveOnly(
         IF ps[from].result.health.isAlive
         THEN [u \in (DOMAIN res) \cup {ps[from].url} |->
                 IF u = ps[from].url THEN ps[from].result ELSE res[u]]
         ELSE res,
         ps, from + 1, to)

\* for (const { url, result } of batchResults) results.set(url, result)
RECURSIVE RecordBatch(_, _, _, _)
RecordBatch(res, ps, from, to) ==
  IF from > to THEN res
  ELSE RecordBatch(
         [u \in (DOMAIN res) \cup {ps[from].url} |->
            IF u = ps[from].url THEN ps[from].result ELSE res[u]],
         ps, from + 1, to)

\* URLs to which a step issued a request
Issued(before, after) ==
  { after[j].url : j \in { k \in DOMAIN after : after[k].call.calls > before[k].call.calls } }

\* fetchWithRetry(url, {retries, retryDelayMs, timeoutMs}) called directly
CallFetchWithRetry ==
  /\ op = "none"
  /\ \E retries \in 0..MaxRetries, script \in RetryScripts :
       /\ rcall' = fetchWithRetryStart(retries, 500, ProbeTimeoutMs)
       /\ endpoints' = [u \in {RetryUrl} |-> script]
  /\ op' = "fetchWithRetry"
  /\ wire' = wire \cup {RetryUrl}
  /\ UNCHANGED <<svars, ivars, cvars, pvars, hvars, fpr, urls, concurrency, i, hcPc, probes, results>>

RetryStep(call) ==
  /\ rcall' = call
  /\ UNCHANGED <<svars, ivars, cvars, pvars, hvars, op, endpoints, fpr, urls, concurrency, i, hcPc, probes, results, wire>>

RetryEntry == StubEntry(endpoints[RetryUrl], rcall.calls)

StubResponds ==
  /\ op = "fetchWithRetry" /\ rcall.pc = "fetch" /\ RetryEntry = "R"
  /\ RetryStep(onFetchResolved(rcall, endpoints[RetryUrl].final))

StubRejects ==
  /\ op = "fetchWithRetry" /\ rcall.pc = "fetch" /\ RetryEntry \in {"T", "N", "X"}
  /\ RetryStep(onFetchRejected(rcall, StubError(RetryEntry, rcall.calls)))

StubTimesOut ==
  /\ op = "fetchWithRetry" /\ rcall.pc = "fetch" /\ RetryEntry = "H"
  /\ RetryStep(onTimeout(rcall))

BackoffElapses ==
  /\ op = "fetchWithRetry" /\ rcall.pc = "sleep"
  /\ RetryStep(onSleepDone(rcall))

\* checkEndpoint(url, timeoutMs) called directly
CallCheckEndpoint ==
  /\ op = "none"
  /\ \E url \in UrlPool, script \in ProbeScripts :
       /\ probes' = <<checkEndpointStart(NewProbe(url), ProbeTimeoutMs, ProbeClock)>>
       /\ endpoints' = [u \in {url} |-> script]
       /\ wire' = wire \cup Issued(<<NewProbe(url)>>, probes')
  /\ op' = "checkEndpoint"
  /\ UNCHANGED <<svars, ivars, cvars, pvars, hvars, rcall, fpr, urls, concurrency, i, hcPc, results>>

\* checkEndpoints(urls, timeoutMs, concurrency, verbose) up to its first await
\* checkEndpoints(us, timeoutMs, conc) up to its first await
StartCheckEndpoints(us, conc) ==
  /\ urls' = us
  /\ concurrency' = conc
  /\ probes' = LaunchBatch([j \in 1..Len(us) |-> NewProbe(us[j])], 0, conc)
  /\ wire' = wire \cup Issued([j \in 1..Len(us) |-> NewProbe(us[j])], probes')
  /\ hcPc' = IF Len(us) = 0 THEN "returned" ELSE "awaiting"
  /\ op' = "checkEndpoints"
  /\ endpoints' = BatchEndpoints
  /\ i' = 0
  /\ results' = <<>>
  /\ UNCHANGED <<rcall, fpr>>

CallCheckEndpoints ==
  /\ op = "none"
  /\ \E us \in UrlLists, conc \in 1..MaxConcurrency : StartCheckEndpoints(us, conc)
  /\ UNCHANGED <<svars, ivars, cvars, pvars, hvars>>

\* await Promise.all resumes: record the batch, report progress, next batch
BatchCompletes ==
  /\ op = "checkEndpoints" /\ hcPc = "awaiting"
  /\ BatchSettled(probes, i, concurrency)
  /\ results' = RecordBatch(results, probes, i + 1, Min(i + concurrency, Len(urls)))
  /\ i' = i + concurrency
  /\ IF i + concurrency < Len(urls)
     THEN /\ hcPc' = "awaiting"
          /\ probes' = LaunchBatch(probes, i + concurrency, concurrency)
          /\ wire' = wire \cup Issued(probes, probes')
     ELSE hcPc' = "returned" /\ UNCHANGED <<probes, wire>>
  /\ UNCHANGED <<svars, ivars, cvars, pvars, hvars, op, endpoints, rcall, fpr, urls, concurrency>>

\* One probe's fetchWithRetry call moves to `call`; checkEndpointSingle
\* resumes if that settled it.
ProbeStep(j, call) ==
  /\ probes' = [probes EXCEPT ![j] = checkEndpointSingleResume(@, call)]
  /\ wire' = wire \cup Issued(probes, probes')
  /\ UNCHANGED <<svars, ivars, cvars, pvars, hvars, op, endpoints, rcall, fpr, urls, concurrency, i, hcPc, results>>

Requesting(j) == probes[j].pc = "request" /\ probes[j].call.pc = "fetch"

ProbeEntry(j) == StubEntry(endpoints[probes[j].url], probes[j].call.calls)

ProbeResponds ==
  \E j \in DOMAIN probes :
    /\ Requesting(j) /\ ProbeEntry(j) = "R"
    /\ ProbeStep(j, onFetchResolved(probes[j].call, endpoints[probes[j].url].final))

ProbeRejects ==
  \E j \in DOMAIN probes :
    /\ Requesting(j) /\ ProbeEntry(j) \in {"T", "N", "X"}
    /\ ProbeStep(j, onFetchRejected(probes[j].call, StubError(ProbeEntry(j), probes[j].call.calls)))

ProbeTimesOut ==
  \E j \in DOMAIN probes :
    /\ Requesting(j) /\ ProbeEntry(j) = "H"
    /\ ProbeStep(j, onTimeout(probes[j].call))

ProbeBackoffElapses ==
  \E j \in DOMAIN probes :
    /\ probes[j].pc = "request" /\ probes[j].call.pc = "sleep"
    /\ ProbeStep(j, onSleepDone(probes[j].call))

ProbeBodyRead ==
  \E j \in DOMAIN probes :
    /\ probes[j].pc = "body"
    /\ probes' = [probes EXCEPT ![j] = checkEndpointBodyRead(@)]
    /\ UNCHANGED <<svars, ivars, cvars, pvars, hvars, op, endpoints, rcall, fpr, urls, concurrency, i, hcPc, results, wire>>

\* fetchPaymentRequirements(resourceUrl, timeoutMs, logger) called directly
CallFetchPaymentRequirements ==
  /\ op = "none"
  /\ \E url \in UrlPool, script \in ProbeScripts :
       /\ fpr' = fetchPaymentRequirementsStart(NewFpr(url))
       /\ endpoints' = [u \in {url} |-> script]
       /\ wire' = wire \cup (IF fpr'.calls > 0 THEN {url} ELSE {})
  /\ op' = "fetchPaymentRequirements"
  /\ UNCHANGED <<svars, ivars, cvars, pvars, hvars, rcall, urls, concurrency, i, hcPc, probes, results>>

FprStep(call) ==
  /\ fpr' = call
  /\ UNCHANGED <<svars, ivars, cvars, pvars, hvars, op, endpoints, rcall, urls, concurrency, i, hcPc, probes, results, wire>>

FprEntry == StubEntry(endpoints[fpr.url], fpr.calls)

FprResponds ==
  /\ op = "fetchPaymentRequirements" /\ fpr.pc = "request" /\ FprEntry = "R"
  /\ FprStep(fetchPaymentRequirementsResolved(fpr, endpoints[fpr.url].final))

FprRejects ==
  /\ op = "fetchPaymentRequirements" /\ fpr.pc = "request" /\ FprEntry \in {"T", "N", "X"}
  /\ FprStep(fetchPaymentRequirementsRejected(fpr, StubError(FprEntry, fpr.calls)))

FprTimesOut ==
  /\ op = "fetchPaymentRequirements" /\ fpr.pc = "request" /\ FprEntry = "H"
  /\ FprStep(fetchPaymentRequirementsTimeout(fpr))

Next ==
  \/ CallFetchWithRetry
  \/ StubResponds
  \/ StubRejects
  \/ StubTimesOut
  \/ BackoffElapses
  \/ CallCheckEndpoint
  \/ CallCheckEndpoints
  \/ BatchCompletes
  \/ ProbeResponds
  \/ ProbeRejects
  \/ ProbeTimesOut
  \/ ProbeBackoffElapses
  \/ ProbeBodyRead
  \/ CallFetchPaymentRequirements
  \/ FprResponds
  \/ FprRejects
  \/ FprTimesOut

Spec == Init /\ [][Next]_vars

\* ------------------------------------------------------------------------
\* Callers of the persistence layer
\* ------------------------------------------------------------------------
MaxChecks == 2
MaxTicks == 2

\* how far the clock advances in one step: 3.5 days, 4 days
TickSteps == {7, 8}

\* --health-days and --stale-days of `cleanup`, and the defaults
RetentionDays == {3, 30}

StaleDays == {7}

ReqUsdcBaseRaised ==
  Item("exact", "base", "20000", "0xPayToA", "0x833589fCD6eDb6E08f4c7C32D4f71b54bdA02913", 120)

\* The resources handed to upsertResource at clock t
UpsertInputs(t) ==
  { Enriched("https://a.example/api", "Alpha", "first", "AI", "discovery_api", NoMetadata,
             <<convertToPricingInfo(ReqUsdcBase)>>,
             HealthResult(TRUE, 200, 40, NoError, toISOString(ClockTime(t)))),
    Enriched("https://a.example/api", Undefined, "", Undefined, "partners_data", <<{<<"websiteUrl", "https://a.example">>}>>,
             <<convertToPricingInfo(ReqUsdcBaseRaised), convertToPricingInfo(ReqSolana)>>,
             HealthResult(FALSE, NoNumber, NoNumber, "Invalid URL format",
                          toISOString(ClockTime(t)))),
    Enriched("https://b.example/api", "Beta", Undefined, "Data", "ecosystem", <<{}>>, <<>>,
             HealthResult(FALSE, 404, 30, NoError, toISOString(ClockTime(t)))),
    Enriched("https://b.example/api", "Beta", "second", Undefined, "discovery_api", NoMetadata,
             <<convertToPricingInfo(ReqSolana), convertToPricingInfo(ReqNoAmount)>>,
             HealthResult(TRUE, 402, 50, NoError, toISOString(ClockTime(t)))),
    Enriched("https://a.example/api", "Alpha", Undefined, Undefined, "discovery_api", NoMetadata,
             <<convertToPricingInfo(ReqUsdcBase), convertToPricingInfo(ReqUsdcBaseRaised)>>,
             HealthResult(TRUE, 402, 45, NoError, toISOString(ClockTime(t)))),
    Enriched("https://a.example/api", Undefined, "pay a", Undefined, "discovery_api", NoMetadata,
             AcceptsPricing(<<Accept(ReqUsdcBaseRaised, "pay a")>>),
             HealthOrPlaceholder(<<>>, t)) }

\* upsertResource(db, resource) up to its first statement
CallUpsertResource ==
  /\ tx.pc = "idle"
  /\ db.nextCheck <= MaxChecks
  /\ \E resource \in UpsertInputs(now) : tx' = upsertResourceBegin(db, resource)
  /\ last' = Call("upsertResource", tx'.resource, "pending", 0, NoError, db, <<>>)
  /\ UNCHANGED <<nvars, ivars, cvars, pvars, hvars, now, ticks, db>>

TxStep(next) ==
  /\ tx' = next
  /\ UNCHANGED <<nvars, ivars, cvars, pvars, hvars, now, ticks, db, last>>

TxResourceRow ==
  /\ tx.pc = "resource"
  /\ TxStep(upsertResourceRowDone(tx, UpsertResourceRow(tx.work, tx.resource, now)))

TxPricing ==
  /\ tx.pc = "pricing"
  /\ ~RequirementRejected(tx.resource.pricing[tx.k])
  /\ TxStep(upsertResourcePricingDone(tx))

TxHealth ==
  /\ tx.pc = "health"
  /\ TxStep(upsertResourceHealthDone(tx))

TxAggregate ==
  /\ tx.pc = "aggregate"
  /\ TxStep(upsertResourceAggregateDone(tx, now))

\* tx.commit() resolves; upsertResource returns the id
TxCommit ==
  /\ tx.pc = "commit"
  /\ db' = Commit(db, tx)
  /\ tx' = IdleTx
  /\ last' = Call("upsertResource", tx.resource, "returned", tx.resourceId, NoError,
                  last.before, tx.log)
  /\ UNCHANGED <<nvars, ivars, cvars, pvars, hvars, now, ticks>>

\* the awaited statement throws: finally closes the transaction and
\* upsertResource rejects
TxAbort(error) ==
  /\ db' = Rollback(db, tx)
  /\ tx' = IdleTx
  /\ last' = Call("upsertResource", tx.resource, "rejected", 0, error, last.before, tx.log)
  /\ UNCHANGED <<nvars, ivars, cvars, pvars, hvars, now, ticks>>

\* a pricing row violates a NOT NULL column
TxPricingRejected ==
  /\ tx.pc = "pricing"
  /\ RequirementRejected(tx.resource.pricing[tx.k])
  /\ TxAbort("NOT NULL constraint failed")

\* messages of the errors a statement can throw
StatementErrors == {"database is locked"}

\* the database fails the statement (busy, I/O error, connection lost)
TxFails ==
  /\ tx.pc \in {"resource", "pricing", "health", "aggregate", "commit"}
  /\ \E error \in StatementErrors : TxAbort(error)

CallCleanupOldHealthChecks ==
  /\ tx.pc = "idle"
  /\ \E daysToKeep \in RetentionDays : db' = cleanupOldHealthChecks(db, daysToKeep, now)
  /\ last' = Call("cleanupOldHealthChecks", IdleTx.resource, "returned", 0, NoError, db, <<>>)
  /\ UNCHANGED <<nvars, ivars, cvars, pvars, hvars, now, ticks, tx>>

CallCleanupStaleResources ==
  /\ tx.pc = "idle"
  /\ \E daysUnseen \in StaleDays : db' = cleanupStaleResources(db, daysUnseen, now)
  /\ last' = Call("cleanupStaleResources", IdleTx.resource, "returned", 0, NoError, db, <<>>)
  /\ UNCHANGED <<nvars, ivars, cvars, pvars, hvars, now, ticks, tx>>

\* time passes between calls
Tick ==
  /\ tx.pc = "idle"
  /\ ticks < MaxTicks
  /\ \E step \in TickSteps : now' = now + step
  /\ ticks' = ticks + 1
  /\ UNCHANGED <<nvars, ivars, cvars, pvars, hvars, db, tx, last>>

NextStore ==
  \/ CallUpsertResource
  \/ TxResourceRow
  \/ TxPricing
  \/ TxHealth
  \/ TxAggregate
  \/ TxCommit
  \/ TxPricingRejected
  \/ TxFails
  \/ CallCleanupOldHealthChecks
  \/ CallCleanupStaleResources
  \/ Tick

SpecStore == Init /\ [][NextStore]_vars

\* ------------------------------------------------------------------------
\* runIndexer and persistToDatabase
\* ------------------------------------------------------------------------
MaxRuns == 2

\* concurrency: z.number().positive().default(5)
DefaultConcurrency == 5

\* What the three sources return.  Duplicates: the discovery API lists one
\* URL twice.  Overlap: a URL in the discovery list, the ecosystem list and a
\* partner's websiteUrl, and a facilitator baseUrl that the ecosystem lists.
\* Mixed: a URL in the discovery and the ecosystem list, an ecosystem-only
\* URL and a facilitator.  Live: an endpoint that answers 402 at the second
\* attempt, one whose URL is not https, one that answers 404.  Nothing:
\* every source failed.
FeedDuplicates ==
  FetchResult(
    <<DiscoveredResource("https://c.example/api", <<Accept(ReqSolana, "pay c")>>, NoMetadata),
      DiscoveredResource("https://c.example/api", <<>>, NoMetadata)>>,
    <<>>, <<>>)

FeedOverlap ==
  FetchResult(
    <<DiscoveredResource("https://c.example/api", <<Accept(ReqUsdcBase, Undefined)>>,
                         <<{<<"tag", "c">>}>>)>>,
    <<EcosystemService("EcoC", "https://c.example/api", "eco c", "Data"),
      EcosystemService("EcoE", "https://e.example/api", "", "Tools")>>,
    <<PartnerMetadata("PartnerC", "partner c", "Infra",
                      "https://c.example/api", "https://e.example/api"),
      PartnerMetadata("NoFacilitator", "none", "Other", "https://site.example", Undefined)>>)

FeedMixed ==
  FetchResult(
    <<DiscoveredResource("https://b.example/api", <<>>, NoMetadata)>>,
    <<EcosystemService("EcoB", "https://b.example/api", "eco b", "Data"),
      EcosystemService("EcoC", "https://c.example/api", "eco c", "Data")>>,
    <<PartnerMetadata("FacA", "facilitator a", "Facilitator",
                      "https://fac.example", "https://a.example/api")>>)

FeedLive ==
  FetchResult(
    <<DiscoveredResource("https://b.example/api", <<>>, NoMetadata)>>,
    <<EcosystemService("EcoPlain", "http://a.example/api", "eco plain", "Tools"),
      EcosystemService("EcoC", "https://c.example/api", "eco c", "Data")>>,
    <<>>)

FeedNothing == FetchResult(<<>>, <<>>, <<>>)

Feeds == {FeedDuplicates, FeedOverlap, FeedMixed, FeedLive, FeedNothing}

\* runIndexer from the enrichment to `await persistToDatabase` or the return
Enrich(run, checkResults, t) ==
  [run EXCEPT
     !.checkResults = checkResults,
     !.resources = EnrichAll(run.fetchResult, checkResults, t),
     !.summary = calculateSummary(EnrichAll(run.fetchResult, checkResults, t)),
     !.pc = IF run.persistToDb THEN "start" ELSE "returned"]

\* runIndexer(config) resumed with the result of fetchResources: up to
\* `await checkEndpoints`, or on to the enrichment if there is nothing to
\* check
NewRun(fetchResult, skipHealthChecks, persistToDb) ==
  [IdleRun EXCEPT !.pc = "checking", !.runs = ix.runs + 1, !.fetchResult = fetchResult,
                  !.skipHealthChecks = skipHealthChecks, !.persistToDb = persistToDb,
                  !.uniqueUrls = UniqueUrls(fetchResult)]

RunIndexer ==
  /\ ix.pc \in {"idle", "returned", "thrown"}
  /\ ix.runs < MaxRuns
  /\ tx.pc = "idle"
  /\ \E fetchResult \in Feeds, skipHealthChecks \in BOOLEAN, persistToDb \in BOOLEAN :
       IF ~skipHealthChecks /\ Len(UniqueUrls(fetchResult)) > 0
       THEN /\ ix' = NewRun(fetchResult, skipHealthChecks, persistToDb)
            /\ StartCheckEndpoints(UniqueUrls(fetchResult), DefaultConcurrency)
       ELSE /\ ix' = Enrich(NewRun(fetchResult, skipHealthChecks, persistToDb), <<>>, now)
            /\ op' = "none"
            /\ urls' = <<>>
            /\ probes' = <<>>
            /\ results' = <<>>
            /\ hcPc' = "idle"
            /\ i' = 0
            /\ UNCHANGED <<endpoints, rcall, fpr, concurrency, wire>>
  /\ UNCHANGED <<svars, cvars, pvars, hvars>>

\* checkEndpoints resolved with its Map
ChecksReturn ==
  /\ ix.pc = "checking"
  /\ hcPc = "returned"
  /\ ix' = Enrich(ix, results, now)
  /\ UNCHANGED <<nvars, svars, cvars, pvars, hvars>>

\* persistToDatabase: startIndexRun
PersistStart ==
  /\ ix.pc = "start"
  /\ db' = startIndexRun(db, now)
  /\ ix' = [ix EXCEPT !.pc = "loop", !.runId = LastInsertRowid(db'), !.k = 0]
  /\ UNCHANGED <<nvars, cvars, pvars, hvars, now, ticks, tx, last>>

\* the upsert the loop waited for has returned, or the loop begins
LoopResumes ==
  \/ ix.pc = "loop"
  \/ ix.pc = "upserting" /\ tx.pc = "idle" /\ last.outcome = "returned"

\* for (const resource of resources) await upsertResource(db, resource)
PersistUpsert ==
  /\ LoopResumes
  /\ ix.k < Len(ix.resources)
  /\ tx' = upsertResourceBegin(db, ix.resources[ix.k + 1])
  /\ last' = Call("upsertResource", tx'.resource, "pending", 0, NoError, db, <<>>)
  /\ ix' = [ix EXCEPT !.pc = "upserting", !.k = @ + 1]
  /\ UNCHANGED <<nvars, cvars, pvars, hvars, now, ticks, db>>

\* await completeIndexRun(db, runId, summary)
PersistComplete ==
  /\ LoopResumes
  /\ ix.k = Len(ix.resources)
  /\ db' = completeIndexRun(db, ix.runId, ix.summary, now)
  /\ ix' = [ix EXCEPT !.pc = "returned"]
  /\ UNCHANGED <<nvars, cvars, pvars, hvars, now, ticks, tx, last>>

\* catch (error) { await failIndexRun(db, runId, error.message); throw error }
PersistCatch(error) ==
  /\ db' = failIndexRun(db, ix.runId, error, now)
  /\ ix' = [ix EXCEPT !.pc = "thrown", !.error = error]
  /\ UNCHANGED <<nvars, cvars, pvars, hvars, now, ticks, tx, last>>

\* upsertResource rejected
PersistUpsertRejected ==
  /\ ix.pc = "upserting" /\ tx.pc = "idle" /\ last.outcome = "rejected"
  /\ PersistCatch(last.error)

\* completeIndexRun rejected
PersistCompleteRejected ==
  /\ LoopResumes
  /\ ix.k = Len(ix.resources)
  /\ \E error \in StatementErrors : PersistCatch(error)

NextIndexer ==
  \/ RunIndexer
  \/ BatchCompletes
  \/ ProbeResponds
  \/ ProbeRejects
  \/ ProbeTimesOut
  \/ ProbeBackoffElapses
  \/ ProbeBodyRead
  \/ ChecksReturn
  \/ PersistStart
  \/ PersistUpsert
  \/ TxResourceRow
  \/ TxPricing
  \/ TxHealth
  \/ TxAggregate
  \/ TxCommit
  \/ TxPricingRejected
  \/ TxFails
  \/ PersistComplete
  \/ PersistUpsertRejected
  \/ PersistCompleteRejected

SpecIndexer == Init /\ [][NextIndexer]_vars

\* ------------------------------------------------------------------------
\* Concurrent callers of upsertResource.  A write transaction holds the
\* database's write lock from db.transaction("write") to commit or close;
\* a second db.transaction("write") meanwhile waits for the lock or rejects
\* with SQLITE_BUSY, as the busy timeout of the connection has it.
\* ------------------------------------------------------------------------
\* caller c calls upsertResource(db, resource): up to await db.transaction
ConcurrentCall(c) ==
  /\ calls[c].pc = "idle"
  /\ \E resource \in UpsertInputs(now) :
       calls' = [calls EXCEPT ![c] = [@ EXCEPT !.pc = "begin", !.resource = resource]]
  /\ UNCHANGED <<nvars, ivars, pvars, hvars, svars, committed>>

\* db.transaction("write") resolves for caller c
ConcurrentBegin(c) ==
  /\ calls[c].pc = "begin"
  /\ tx.pc = "idle"
  /\ \A d \in Callers : calls[d].pc # "running"
  /\ tx' = upsertResourceBegin(db, calls[c].resource)
  /\ last' = Call("upsertResource", tx'.resource, "pending", 0, NoError, db, <<>>)
  /\ calls' = [calls EXCEPT ![c].pc = "running"]
  /\ UNCHANGED <<nvars, ivars, pvars, hvars, now, ticks, db, committed>>

\* db.transaction("write") rejects for caller c: the lock is held
ConcurrentBusy(c) ==
  /\ calls[c].pc = "begin"
  /\ tx.pc # "idle"
  /\ calls' = [calls EXCEPT ![c] = [@ EXCEPT !.pc = "rejected", !.error = "database is locked"]]
  /\ UNCHANGED <<nvars, ivars, pvars, hvars, svars, committed>>

\* the call of caller c settles: it returns the id, or rejects
ConcurrentSettles(c) ==
  /\ calls[c].pc = "running"
  /\ tx.pc = "idle"
  /\ IF last.outcome = "returned"
     THEN /\ calls' = [calls EXCEPT ![c] = [@ EXCEPT !.pc = "returned", !.id = last.id]]
          /\ committed' = Append(committed, c)
     ELSE /\ calls' = [calls EXCEPT ![c] = [@ EXCEPT !.pc = "rejected", !.error = last.error]]
          /\ UNCHANGED committed
  /\ UNCHANGED <<nvars, ivars, pvars, hvars, svars>>

NextConcurrent ==
  \/ \E c \in Callers : ConcurrentCall(c)
  \/ \E c \in Callers : ConcurrentBegin(c)
  \/ \E c \in Callers : ConcurrentBusy(c)
  \/ \E c \in Callers : ConcurrentSettles(c)
  \/ TxResourceRow
  \/ TxPricing
  \/ TxHealth
  \/ TxAggregate
  \/ TxCommit
  \/ TxPricingRejected
  \/ TxFails

SpecConcurrent == Init /\ [][NextConcurrent]_vars

\* ------------------------------------------------------------------------
\* Properties of the health checker and the fetch client
\* ------------------------------------------------------------------------
Started(j) == probes[j].pc # "new"

InFlight == { j \in DOMAIN probes : probes[j].pc \in {"request", "body"} }

\* what checkEndpoint returns for a URL that validation rejected with urlCheck
RejectedOutright(probe, urlCheck) ==
  /\ probe.pc = "done"
  /\ probe.call.calls = 0
  /\ probe.result.health.isAlive = FALSE
  /\ probe.result.health.error = urlCheck.error
  /\ probe.result.pricing = <<>>

ProbeGuarded(probe, urlCheck) == urlCheck.valid \/ RejectedOutright(probe, urlCheck)

FprGuarded(call, urlCheck) ==
  urlCheck.valid \/ (call.pc = "done" /\ call.calls = 0 /\ call.result.error = urlCheck.error)

\* C1: checkEndpoint on a URL that validateUrl rejects returns alive=false
\* with the validation reason as error and empty pricing without issuing a
\* request, and no run of checkEndpoint, checkEndpoints or
\* fetchPaymentRequirements ever sends a request to a rejected URL.
C1_RejectedUrlNeverRequested ==
  /\ \A u \in wire : validateUrl(u).valid
  /\ \A j \in DOMAIN probes : Started(j) => ProbeGuarded(probes[j], validateUrl(probes[j].url))
  /\ op = "fetchPaymentRequirements" => FprGuarded(fpr, validateUrl(fpr.url))

C1_Witness ==
  /\ op = "checkEndpoint"
  /\ probes[1].url = "https://[::ffff:a00:1]/api"
  /\ probes[1].pc = "done"
  /\ probes[1].result.health.error = "Blocked private IPv6: [::ffff:a00:1]"
  /\ probes[1].result.health.isAlive = FALSE
  /\ wire = {}

\* the last entry of a call's log is a response with status 200..299 or 402
AnsweredAlive(call) ==
  /\ Len(call.log) > 0
  /\ call.log[Len(call.log)].error = NoFailure
  /\ (call.log[Len(call.log)].status \in 200..299 \/ call.log[Len(call.log)].status = 402)

Settled(call) == call.pc \in {"returned", "thrown"}

\* C2: a probe that got an HTTP response is alive exactly when the status is
\* in 200..299 or is 402; any other status, and a probe whose retries are
\* exhausted by failures, is not alive.
C2_AliveIffOkOr402 ==
  \A j \in DOMAIN probes :
    Settled(probes[j].call) => (probes[j].result.health.isAlive = AnsweredAlive(probes[j].call))

C2_Witness ==
  /\ op = "checkEndpoint"
  /\ probes[1].pc = "done"
  /\ probes[1].call.pc = "returned"
  /\ probes[1].call.response.status = 402
  /\ probes[1].call.response.header = "garbage"
  /\ probes[1].result.health.isAlive = TRUE

\* C3: at every moment of checkEndpoints at most `concurrency` probes are
\* in flight.
C3_InFlightAtMostConcurrency ==
  op = "checkEndpoints" => Cardinality(InFlight) <= concurrency

C3_Witness ==
  /\ op = "checkEndpoints"
  /\ Len(urls) = 3
  /\ concurrency = 2
  /\ Cardinality(InFlight) = 2
  /\ probes[3].pc = "new"

ChunkOf(j) == (j - 1) \div concurrency

Recorded(j) ==
  /\ probes[j].pc = "done"
  /\ probes[j].url \in DOMAIN results
  /\ results[probes[j].url] = probes[j].result

\* C4: the list is processed in consecutive chunks of `concurrency`: a probe
\* of a chunk has started only if every probe of every earlier chunk has
\* finished and has its result in the Map; with concurrency 1 the probes
\* run one after another in list order.
C4_ChunksInOrder ==
  op = "checkEndpoints" =>
    /\ \A j, k \in DOMAIN probes : (Started(j) /\ ChunkOf(k) < ChunkOf(j)) => Recorded(k)
    /\ \A j \in DOMAIN probes : Started(j) => ChunkOf(j) * concurrency <= i
    /\ concurrency = 1 =>
          \A j, k \in DOMAIN probes : (Started(j) /\ k < j) => probes[k].pc = "done"

C4_Witness ==
  /\ op = "checkEndpoints"
  /\ concurrency = 2
  /\ Len(urls) = 3
  /\ probes[3].pc = "request"
  /\ Recorded(1) /\ Recorded(2)
  /\ probes[1].url # probes[2].url

LastIndexOf(u) == CHOOSE j \in DOMAIN urls : urls[j] = u /\ \A k \in DOMAIN urls : urls[k] = u => k <= j

\* how a probe of a validated URL records what its fetchWithRetry call ended with
FailureRecorded(probe) ==
  /\ probe.call.pc = "thrown" =>
        /\ probe.result.health.isAlive = FALSE
        /\ probe.result.health.error = probe.call.lastError.message
        /\ probe.result.health.error # NoError
        /\ probe.result.pricing = <<>>
  /\ (probe.call.pc = "returned" /\ ~AnsweredAlive(probe.call)) =>
        /\ probe.result.health.isAlive = FALSE
        /\ probe.result.health.statusCode = probe.call.response.status
        /\ probe.result.health.error = NoError
        /\ probe.result.pricing = <<>>
  /\ (probe.call.pc = "returned" /\ AnsweredAlive(probe.call)) =>
        /\ probe.result.health.isAlive = TRUE
        /\ probe.result.health.error = NoError

\* C5 (as amended): checkEndpoints returns a Map whose keys are exactly the
\* distinct input URLs; each entry is the result of the last probe of that
\* URL alone; an invalid URL, a transport error and a timeout are recorded
\* as alive=false with the message as error; a non-alive status is recorded
\* as alive=false with the status code and no error; pricing that cannot be
\* parsed leaves the entry alive as the status says, with empty pricing.
C5_OneEntryPerUrl ==
  (op = "checkEndpoints" /\ hcPc = "returned") =>
    /\ DOMAIN results = { urls[j] : j \in DOMAIN urls }
    /\ \A u \in DOMAIN results : results[u] = probes[LastIndexOf(u)].result
    /\ \A j \in DOMAIN probes :
          /\ probes[j].pc = "done"
          /\ ProbeGuarded(probes[j], validateUrl(probes[j].url))
          /\ FailureRecorded(probes[j])

C5_Witness ==
  /\ op = "checkEndpoints" /\ hcPc = "returned"
  /\ Len(urls) = 3 /\ urls[1] = urls[3]
  /\ urls[1] = "https://e.example/api" /\ urls[2] = "https://b.example/api"
  /\ Cardinality(DOMAIN results) = 2
  /\ results[urls[1]].health.isAlive = FALSE
  /\ results[urls[2]].health.isAlive = TRUE
  /\ results[urls[2]].pricing = <<>>

\* a probe that ended in one of the failures C5 lists
ProbeFailed(probe, urlCheck) ==
  \/ ~urlCheck.valid
  \/ probe.call.pc = "thrown"
  \/ (probe.call.pc = "returned" /\ ~AnsweredAlive(probe.call))
  \/ (probe.call.pc = "returned" /\ probe.call.response.status = 402
        /\ probe.result.pricing = <<>>)

\* C5 as stated: every failed probe (invalid URL, transport error, timeout,
\* non-alive status, unparseable pricing) is recorded as alive=false with
\* an error message.
C5_EveryFailureHasError ==
  (op = "checkEndpoints" /\ hcPc = "returned") =>
    \A j \in DOMAIN probes :
      ProbeFailed(probes[j], validateUrl(probes[j].url)) =>
        /\ results[probes[j].url].health.isAlive = FALSE
        /\ results[probes[j].url].health.error # NoError

TransientOnly(script) == \A n \in DOMAIN script.fails : script.fails[n] \in {"T", "H"}

\* the error the n-th request of a script rejects with
ScriptedError(script, n) ==
  IF script.fails[n] = "H" THEN AbortError ELSE StubError(script.fails[n], n)

\* fetchWithRetry against a stub failing transiently k times, then answering
RetryContract(call, script, k) ==
  /\ call.pc = "returned" =>
        /\ call.retries >= k
        /\ call.calls = k + 1
        /\ call.response = script.final
  /\ call.pc = "thrown" =>
        /\ call.retries < k
        /\ call.calls = call.retries + 1
        /\ call.lastError = ScriptedError(script, call.retries + 1)
  /\ call.pc \in {"fetch", "sleep"} => (call.calls <= k + 1 /\ call.calls <= call.retries + 1)

\* C6: against a fetch that fails transiently k times and then succeeds,
\* fetchWithRetry with retries >= k returns the success after exactly k+1
\* attempts, and with retries < k makes exactly retries+1 attempts and
\* rejects with the last attempt's error unchanged; it never makes more
\* than retries+1 attempts, whatever the fetch does.
C6_RetryUntilSuccessOrExhausted ==
  op = "fetchWithRetry" =>
    /\ rcall.calls <= rcall.retries + 1
    /\ TransientOnly(endpoints[RetryUrl]) =>
          RetryContract(rcall, endpoints[RetryUrl], Len(endpoints[RetryUrl].fails))

C6_Witness ==
  /\ op = "fetchWithRetry"
  /\ endpoints[RetryUrl].fails = <<"T", "H", "T", "T">>
  /\ rcall.retries = 2
  /\ rcall.pc = "thrown"
  /\ rcall.calls = 3
  /\ rcall.lastError = ErrorValue(TRUE, "read ECONNRESET #3")

\* once the n-th request got a response, or an error that is not transient,
\* it is the last request, and the call settles with it
FinalAttempt(call, script, n) ==
  /\ call.calls = n
  /\ Len(call.log) = n =>
        IF StubEntry(script, n) = "R"
        THEN call.pc = "returned" /\ call.response = script.final
        ELSE call.pc = "thrown" /\ call.lastError.message = StubError(script.fails[n], n).message

NoRetryAfterAnswer(call, script) ==
  \A n \in 1..call.calls :
    StubEntry(script, n) \in {"R", "N", "X"} => FinalAttempt(call, script, n)

\* a response that is not alive is reported dead with its status code
DeadKeepsStatus(probe) ==
  (probe.call.pc = "returned" /\ probe.call.response.status \in {404} \cup (500..599)) =>
    /\ probe.result.health.isAlive = FALSE
    /\ probe.result.health.statusCode = probe.call.response.status

\* C7: fetchWithRetry makes no further attempt after a request that got an
\* HTTP response, whatever its status (the probe reports a 404 or 5xx as
\* dead with the status code), nor after an error that is not transient,
\* which the same attempt throws.
C7_NoRetryAfterResponseOrFatalError ==
  /\ op = "fetchWithRetry" => NoRetryAfterAnswer(rcall, endpoints[RetryUrl])
  /\ \A j \in DOMAIN probes :
        probes[j].call.calls > 0 =>
          /\ NoRetryAfterAnswer(probes[j].call, endpoints[probes[j].url])
          /\ DeadKeepsStatus(probes[j])

C7_Witness ==
  /\ op = "checkEndpoint"
  /\ probes[1].pc = "done"
  /\ endpoints[probes[1].url] = Script(<<>>, Response(404, "none", "none"))
  /\ probes[1].call.calls = 1
  /\ probes[1].call.waits = <<>>
  /\ probes[1].result.health.statusCode = 404
  /\ probes[1].result.health.isAlive = FALSE

\* ------------------------------------------------------------------------
\* Properties of the persistence layer
\* ------------------------------------------------------------------------
Upserting == tx.pc # "idle"

UpsertEnded(outcome) ==
  last.op = "upsertResource" /\ last.outcome = outcome /\ ~Upserting

\* the statements of one upsertResource, in order
RECURSIVE PricingStatements(_)
PricingStatements(n) == IF n = 0 THEN <<>> ELSE <<"pricing">> \o PricingStatements(n - 1)

StatementOrder(resource) ==
  <<"resource">> \o PricingStatements(Len(resource.pricing)) \o <<"history", "aggregate">>

IsPrefix(s, t) == Len(s) <= Len(t) /\ SubSeq(t, 1, Len(s)) = s

\* the rows of `resource` that `store` shows: its resource row, one pricing
\* row per (network, asset), the history row of this probe and the aggregate
ShowsAll(store, before, resource) ==
  \E r \in store.resources :
    /\ r.url = resource.url
    /\ \A k \in DOMAIN resource.pricing :
          \E p \in store.payment_requirements :
            /\ p.resourceId = r.id
            /\ p.network = resource.pricing[k].network
            /\ p.asset = resource.pricing[k].asset
    /\ \E h \in store.health_checks \ before.health_checks :
          h.resourceId = r.id /\ h.checkedAt = resource.health.checkedAt
    /\ \E a \in store.resource_health :
          /\ a.resourceId = r.id
          /\ a.checkedAt = resource.health.checkedAt
          /\ a.checkCount7d >= 1

\* C8: upsertResource is all-or-nothing.  While it runs nothing it wrote is
\* visible; if a statement fails the store is exactly as before the call;
\* if it returns, the resource row, the pricing rows, the new history row
\* and the aggregate are visible together, having been written in this
\* order.
C8_UpsertAllOrNothing ==
  /\ Upserting => (db = last.before /\ IsPrefix(tx.log, StatementOrder(tx.resource)))
  /\ UpsertEnded("rejected") => db = last.before
  /\ UpsertEnded("returned") =>
        /\ last.log = StatementOrder(last.resource)
        /\ ShowsAll(db, last.before, last.resource)

C8_Witness ==
  /\ UpsertEnded("rejected")
  /\ last.log = <<"resource", "pricing">>
  /\ last.before.health_checks # {}
  /\ db = last.before

\* the recomputation of a resource's aggregate from the history rows of the
\* 7 days before `cutoff + 7 days`
Recomputed(store, resourceId, cutoff) ==
  WindowStats(ChecksInWindow(store.health_checks, resourceId, cutoff))

AggregateIs(a, stats) ==
  /\ a.checkCount7d = stats.checkCount7d
  /\ a.uptime7d = stats.uptime7d
  /\ a.avgLatency7d = stats.avgLatency7d

\* the time of the last upsert of the resource with this id, less 7 days
LastUpsertCutoff(store, resourceId) ==
  [(CHOOSE r \in store.resources : r.id = resourceId).lastSeenAt EXCEPT !.day = @ - 7]

\* C9: in every state reached by upsertResource, cleanupOldHealthChecks and
\* cleanupStaleResources, each resource's aggregate row equals the value
\* recomputed from its history rows of the trailing 7 days (counted here
\* from the resource's last upsert, the reading that favours the code most;
\* counted from the current time the aggregate also goes stale as rows age).
C9_AggregateEqualsRecomputation ==
  \A a \in db.resource_health :
    AggregateIs(a, Recomputed(db, a.resourceId, LastUpsertCutoff(db, a.resourceId)))

\* what the history row of a probe result must carry
CarriesHealth(h, health) ==
  /\ h.isAlive = (IF health.isAlive THEN 1 ELSE 0)
  /\ h.statusCode = (IF health.statusCode = NoNumber THEN <<>> ELSE <<health.statusCode>>)
  /\ h.latencyMs = (IF health.latencyMs = NoNumber THEN <<>> ELSE <<health.latencyMs>>)
  /\ h.error = (IF health.error = Undefined THEN <<>> ELSE <<health.error>>)
  /\ h.checkedAt = health.checkedAt

OneRowAdded(after, before, resource) ==
  /\ before \subseteq after
  /\ Cardinality(after \ before) = 1
  /\ \A h \in after \ before :
        /\ CarriesHealth(h, resource.health)
        /\ \A old \in before : old.id < h.id
        /\ \E r \in db.resources : r.id = h.resourceId /\ r.url = resource.url

\* C10: the history is append-only under upsertResource.  A successful
\* upsert adds exactly one history row, for its resource, carrying the
\* probe's alive flag, status code, latency, error and checkedAt; no upsert,
\* running, failed or successful, changes or removes a row that was there.
C10_HistoryAppendOnly ==
  /\ Upserting => (last.before.health_checks \subseteq tx.work.health_checks
                   /\ db.health_checks = last.before.health_checks)
  /\ UpsertEnded("rejected") => db.health_checks = last.before.health_checks
  /\ UpsertEnded("returned") =>
        OneRowAdded(db.health_checks, last.before.health_checks, last.resource)

C10_Witness ==
  /\ UpsertEnded("returned")
  /\ Cardinality(db.health_checks) = 2
  /\ \A h \in db.health_checks : h.resourceId = 1
  /\ \E h \in db.health_checks : h.statusCode = <<>> /\ h.error = <<"Invalid URL format">>
  /\ \E h \in db.health_checks : h.statusCode = <<200>> /\ h.error = <<>>

\* the row stored for `url`
StoredRow(store, url) == CHOOSE r \in store.resources : r.url = url

Stored(store, url) == \E r \in store.resources : r.url = url

\* an optional string that is absent or has no characters
IsBlank(value) == value = Undefined \/ value = ""

KeptOrReplaced(after, before, incoming) ==
  after = (IF IsBlank(incoming) THEN before ELSE <<incoming>>)

\* C17: an upsert of a URL that is already stored changes the stored name,
\* description and category only to a non-empty incoming value; a field
\* that is absent or empty in the incoming resource leaves the stored value
\* as it was.
C17_NeverBlanked ==
  (UpsertEnded("returned") /\ Stored(last.before, last.resource.url)) =>
    /\ KeptOrReplaced(StoredRow(db, last.resource.url).name,
                      StoredRow(last.before, last.resource.url).name,
                      last.resource.name)
    /\ KeptOrReplaced(StoredRow(db, last.resource.url).description,
                      StoredRow(last.before, last.resource.url).description,
                      last.resource.description)
    /\ KeptOrReplaced(StoredRow(db, last.resource.url).category,
                      StoredRow(last.before, last.resource.url).category,
                      last.resource.category)

\* discovery API > ecosystem listing > partner file
Priority(source) ==
  CASE source = "discovery_api" -> 3
    [] source = "ecosystem" -> 2
    [] OTHER -> 1

\* C18: the stored provenance tag is that of the highest-priority source
\* that has supplied the URL: after an upsert returns, the stored tag has
\* the higher priority of the tag stored before and the incoming one.
C18_TagIsHighestPriority ==
  UpsertEnded("returned") =>
    /\ Priority(StoredRow(db, last.resource.url).source) >= Priority(last.resource.source)
    /\ Stored(last.before, last.resource.url) =>
          Priority(StoredRow(db, last.resource.url).source)
            >= Priority(StoredRow(last.before, last.resource.url).source)

\* the clock value a timestamp stands for
HalfDays(stamp) == stamp.day * 2 + stamp.tod

\* the history rows of the resource taken in the 7 days before clock t
TrailingSevenDays(checks, resourceId, t) ==
  { h \in checks : h.resourceId = resourceId /\ HalfDays(h.checkedAt) >= t - 14 }

\* C20: after an upsert during which no time passed, the aggregate of the
\* resource is computed from its history rows of the trailing 7 days:
\* checkCount7d is their number, uptime7d is alive / total * 100 (null for
\* no rows) and avgLatency7d the mean over the rows with a latency.
C20_AggregateOverSevenDays ==
  (UpsertEnded("returned") /\ last.resource.health.checkedAt = toISOString(ClockTime(now))) =>
    \A a \in db.resource_health :
      a.resourceId = last.id =>
        AggregateIs(a, WindowStats(TrailingSevenDays(db.health_checks, a.resourceId, now)))

\* ------------------------------------------------------------------------
\* Claims about the indexer run
\* ------------------------------------------------------------------------
RunRow(store, id) == CHOOSE r \in store.index_runs : r.id = id

Closed(r) == r.status \in {"completed", "failed"}

Persisting == ix.pc \in {"loop", "upserting"}

\* the loop of persistToDatabase has made its last upsert attempt
LastAttemptMade ==
  /\ Persisting /\ tx.pc = "idle"
  /\ \/ ix.k = Len(ix.resources) /\ (ix.pc = "upserting" => last.outcome = "returned")
     \/ ix.pc = "upserting" /\ last.outcome = "rejected"

\* one step on the ledger: rows are never removed, a closed row is left as
\* it is, the row of the current run is closed only after the last upsert
\* attempt, and a new row is running and opened before any upsert
LedgerStep ==
  /\ \A r \in db.index_runs :
        /\ \E q \in db'.index_runs : q.id = r.id
        /\ Closed(r) => r \in db'.index_runs
        /\ r \notin db'.index_runs =>
              /\ r.id = ix.runId
              /\ LastAttemptMade
              /\ Closed(RunRow(db', r.id))
  /\ \A q \in db'.index_runs :
        (\A r \in db.index_runs : r.id # q.id) =>
           /\ q.status = "running"
           /\ ix'.runId = q.id /\ ix'.k = 0 /\ ix'.pc = "loop"

LedgerState ==
  /\ Persisting =>
        \E r \in db.index_runs : r.id = ix.runId /\ r.status = "running"
  /\ (ix.pc = "returned" /\ ix.persistToDb) =>
        \E r \in db.index_runs : r.id = ix.runId /\ r.status = "completed"
  /\ ix.pc = "thrown" =>
        \E r \in db.index_runs : r.id = ix.runId /\ r.status = "failed"

Committed(store, resource) ==
  \E r \in store.resources :
    /\ r.url = resource.url
    /\ \E h \in store.health_checks : h.resourceId = r.id /\ CarriesHealth(h, resource.health)

UpsertRejectedInRun == ix.pc = "upserting" /\ tx.pc = "idle" /\ last.outcome = "rejected"

\* the step persistToDatabase takes once an upsert has rejected: it throws
\* the error and touches nothing but the ledger
CatchStep ==
  UpsertRejectedInRun =>
    /\ ix'.pc = "thrown" /\ ix'.error = last.error
    /\ [db' EXCEPT !.index_runs = db.index_runs] = db

Merged == ix.pc \in {"start", "loop", "upserting", "returned", "thrown"}

\* C13: no two resources of runIndexer's output share a URL.
C13_OneResourcePerUrl ==
  Merged => \A j, k \in DOMAIN ix.resources :
              j # k => ix.resources[j].url # ix.resources[k].url

DiscoveryUrls(fetchResult) ==
  { fetchResult.discoveryResources[k].resource : k \in DOMAIN fetchResult.discoveryResources }

EcosystemUrls(fetchResult) ==
  { fetchResult.ecosystemServices[k].url : k \in DOMAIN fetchResult.ecosystemServices }

\* the tag of the highest-priority source that names the URL
TagByPriority(fetchResult, url) ==
  IF url \in DiscoveryUrls(fetchResult) THEN "discovery_api"
  ELSE IF url \in EcosystemUrls(fetchResult) THEN "ecosystem"
  ELSE "partners_data"

FirstWith(list, Test(_)) == list[CHOOSE k \in DOMAIN list :
                                   Test(list[k]) /\ \A j \in 1..(k - 1) : ~Test(list[j])]

SameFields(resource, entry) ==
  /\ resource.name = entry.name
  /\ resource.description = entry.description
  /\ resource.category = entry.category

\* what a merged resource owes to the entries of its own source
OwnEntry(fetchResult, resource) ==
  CASE resource.source = "ecosystem" ->
         /\ SameFields(resource,
                       FirstWith(fetchResult.ecosystemServices, LAMBDA e : e.url = resource.url))
         /\ resource.metadata = <<{}>>
    [] resource.source = "partners_data" ->
         /\ SameFields(resource,
                       FirstWith(fetchResult.partnerMetadata, LAMBDA q : q.baseUrl = resource.url))
         /\ resource.metadata =
              <<PartnerObject(FirstWith(fetchResult.partnerMetadata,
                                        LAMBDA q : q.baseUrl = resource.url))>>
    [] OTHER ->
         /\ \E k \in DOMAIN fetchResult.discoveryResources :
               /\ fetchResult.discoveryResources[k].resource = resource.url
               /\ resource.metadata = fetchResult.discoveryResources[k].metadata
         /\ \A e \in {fetchResult.ecosystemServices[k] : k \in DOMAIN fetchResult.ecosystemServices} :
               e.url = resource.url => resource.name # e.name
         /\ resource.name # Undefined =>
               \E k \in DOMAIN fetchResult.partnerMetadata :
                 /\ resource.url \in {fetchResult.partnerMetadata[k].websiteUrl,
                                      fetchResult.partnerMetadata[k].baseUrl}
                 /\ resource.name = fetchResult.partnerMetadata[k].name
                 /\ resource.description = fetchResult.partnerMetadata[k].description
                 /\ resource.category = fetchResult.partnerMetadata[k].category

BackFilled(value, fallback) == IF value = Undefined THEN fallback ELSE value

\* C15: for a URL in the discovery list and the ecosystem list the merged
\* name is the discovery entry's; a field the discovery entry lacks is
\* taken from the ecosystem entry of that URL.  (A discovery entry has no
\* name and no category, and its description is that of accepts[0].)
C15_BackFilledFromEcosystem ==
  Merged => \A k \in DOMAIN ix.resources :
              ix.resources[k].url \in DiscoveryUrls(ix.fetchResult)
                                        \cap EcosystemUrls(ix.fetchResult) =>
                 /\ ix.resources[k].name =
                      FirstWith(ix.fetchResult.ecosystemServices,
                                LAMBDA e : e.url = ix.resources[k].url).name
                 /\ ix.resources[k].category =
                      FirstWith(ix.fetchResult.ecosystemServices,
                                LAMBDA e : e.url = ix.resources[k].url).category
                 /\ ix.resources[k].description # Undefined

\* every URL of the three lists
NamedUrls(fetchResult) ==
  (DiscoveryUrls(fetchResult) \cup EcosystemUrls(fetchResult)
     \cup { fetchResult.partnerMetadata[k].baseUrl : k \in DOMAIN fetchResult.partnerMetadata })
    \ {Undefined}

ProbesOf(url) == { j \in DOMAIN probes : probes[j].url = url }

\* the pricing a discovery resource falls back to
OwnAccepts(fetchResult, resource) ==
  { AcceptsPricing(fetchResult.discoveryResources[k].accepts) :
      k \in { j \in DOMAIN fetchResult.discoveryResources :
                fetchResult.discoveryResources[j].resource = resource.url } }

Checked == Merged /\ ~ix.skipHealthChecks

\* C16: in a run that does not skip the checks every URL named by a source
\* is probed exactly once, and every merged resource carries the health
\* recorded for its URL in the Map, never the placeholder, and the pricing
\* recorded there; a discovery resource whose recorded pricing is empty
\* carries the pricing of its own accepts list instead.
C16_ProbedOnceAndMatched ==
  /\ (ix.pc = "checking" \/ Checked) =>
        \A u \in NamedUrls(ix.fetchResult) : Cardinality(ProbesOf(u)) = 1
  /\ Checked =>
        \A k \in DOMAIN ix.resources :
          /\ ix.resources[k].url \in DOMAIN results
          /\ ix.resources[k].health = results[ix.resources[k].url].health
          /\ ix.resources[k].health.error # "Health check skipped"
          /\ \/ ix.resources[k].pricing = results[ix.resources[k].url].pricing
             \/ /\ ix.resources[k].source = "discovery_api"
                /\ results[ix.resources[k].url].pricing = <<>>
                /\ ix.resources[k].pricing \in OwnAccepts(ix.fetchResult, ix.resources[k])

C16_Witness ==
  /\ Checked /\ ix.fetchResult = FeedOverlap
  /\ Len(probes) = 2
  /\ ix.resources[1].pricing = AcceptsPricing(<<Accept(ReqUsdcBase, Undefined)>>)
  /\ results["https://c.example/api"].pricing = <<>>
  /\ ix.resources[2].health = results["https://e.example/api"].health
  /\ ~ix.resources[2].health.isAlive

\* C16 as stated: every merged resource carries the pricing recorded for
\* its URL in the Map.
C16_PricingFromMap ==
  Checked =>
    \A k \in DOMAIN ix.resources :
      /\ ix.resources[k].url \in DOMAIN results
      /\ ix.resources[k].health = results[ix.resources[k].url].health
      /\ ix.resources[k].pricing = results[ix.resources[k].url].pricing

\* ------------------------------------------------------------------------
\* Claims about concurrent upserts
\* ------------------------------------------------------------------------
Returned == { c \in Callers : calls[c].pc = "returned" }

\* every commit has been observed by its caller
AllSettled == \A c \in Callers : calls[c].pc = "running" => tx.pc # "idle"

RowsOf(store, url) == { r \in store.resources : r.url = url }

HistoryOf(store, url) ==
  { h \in store.health_checks : \E r \in RowsOf(store, url) : h.resourceId = r.id }

\* the caller whose call for `url` committed last
LastCommitted(url) ==
  committed[CHOOSE k \in DOMAIN committed :
              /\ calls[committed[k]].resource.url = url
              /\ \A j \in DOMAIN committed :
                    calls[committed[j]].resource.url = url => j <= k]

ReflectsCall(store, resource) ==
  \E a \in store.resource_health :
    /\ a.resourceId = StoredRow(store, resource.url).id
    /\ a.checkedAt = resource.health.checkedAt
    /\ a.isAlive = (IF resource.health.isAlive THEN 1 ELSE 0)
    /\ a.statusCode = OrNull(resource.health.statusCode, NoNumber)
    /\ a.error = OrNull(resource.health.error, Undefined)
    /\ a.checkCount7d = Cardinality(HistoryOf(store, resource.url))

\* C19: whatever the interleaving of the callers, the store holds at most
\* one resource row per URL; every call that returned for a URL returned
\* the id of that row; the history of the URL holds one row per call that
\* committed; and the aggregate is that of the call that committed last.
C19_SameUrlSerialized ==
  /\ \A r, q \in db.resources : r.url = q.url => r = q
  /\ \A c \in Returned :
        /\ Cardinality(RowsOf(db, calls[c].resource.url)) = 1
        /\ calls[c].id = StoredRow(db, calls[c].resource.url).id
  /\ AllSettled =>
        \A url \in { r.url : r \in db.resources } :
          /\ Cardinality(HistoryOf(db, url))
               = Cardinality({ c \in Returned : calls[c].resource.url = url })
          /\ ReflectsCall(db, calls[LastCommitted(url)].resource)

C19_Witness ==
  /\ Returned = Callers
  /\ \A c \in Callers : calls[c].resource.url = "https://a.example/api" /\ calls[c].id = 1
  /\ calls[1].resource.source # calls[2].resource.source
  /\ committed = <<2, 1>>
  /\ Cardinality(db.health_checks) = 2

\* the history rows of the resource that the statement of
\* updateResourceHealthTx selects at clock t
Included(checks, resourceId, t) == ChecksInWindow(checks, resourceId, SqlDatetime(t, 7))

\* C21: at the time of an upsert the 7-day window is exact: a history row of
\* the resource is selected for the aggregate exactly when its checkedAt is
\* not more than 7 days in the past, and checkCount7d is the number of
\* those rows, for the ISO 8601 checkedAt values the health checker writes.
C21_WindowExact ==
  (UpsertEnded("returned") /\ last.resource.health.checkedAt = toISOString(ClockTime(now))) =>
    /\ \A h \in db.health_checks :
         h.resourceId = last.id =>
           (h \in Included(db.health_checks, last.id, now) <=> HalfDays(h.checkedAt) >= now - 14)
    /\ \A a \in db.resource_health :
         a.resourceId = last.id =>
           a.checkCount7d
             = Cardinality({ h \in db.health_checks :
                               h.resourceId = last.id /\ HalfDays(h.checkedAt) >= now - 14 })

\* the requirements of a parsed JSON text that pass the schema
ValidOf(json) == IF json.throws THEN <<>> ELSE ValidItems(json.elems)

\* what the X-Payment header yields: its base64 reading, else its raw one
HeaderYield(name) ==
  IF ~HeaderContent(name).present THEN <<>>
  ELSE IF ValidOf(HeaderContent(name).b64) # <<>> THEN ValidOf(HeaderContent(name).b64)
  ELSE ValidOf(HeaderContent(name).raw)

\* what the accepts array of the body yields
BodyYield(name) ==
  IF BodyContent(name).throws \/ ~BodyContent(name).isObject \/ ~BodyContent(name).hasAccepts
  THEN <<>>
  ELSE ValidItems(BodyContent(name).accepts)

\* the probe has a response in hand
Answered(probe) == probe.pc \in {"body", "done"} /\ probe.call.pc = "returned"

\* C22: pricing comes only from a response of status exactly 402 (any other
\* status gives empty pricing); the header is tried first, base64 reading
\* before raw reading; the body is read only when the header is absent or
\* yields no valid requirement, and then its accepts array gives the
\* pricing; when the header yields a requirement the body is never read.
C22_PricingFrom402HeaderFirst ==
  (op \in {"checkEndpoint", "checkEndpoints"}) =>
    \A j \in DOMAIN probes :
      Answered(probes[j]) =>
        /\ probes[j].pc = "body" =>
             /\ probes[j].call.response.status = 402
             /\ HeaderYield(probes[j].call.response.header) = <<>>
        /\ probes[j].pc = "done" =>
             probes[j].result.rawPaymentRequirements
               = IF probes[j].call.response.status # 402 THEN <<>>
                 ELSE IF HeaderYield(probes[j].call.response.header) # <<>>
                 THEN HeaderYield(probes[j].call.response.header)
                 ELSE BodyYield(probes[j].call.response.body)
        /\ probes[j].result.pricing = MapPricing(probes[j].result.rawPaymentRequirements)

\* a 402 whose raw header holds a requirement and whose body holds others:
\* the pricing is the header's
C22_Witness ==
  /\ op = "checkEndpoint"
  /\ \E j \in DOMAIN probes :
       /\ probes[j].pc = "done" /\ probes[j].call.pc = "returned"
       /\ probes[j].call.response = Response(402, "raw-object", "accepts-mixed")
       /\ probes[j].result.pricing = <<convertToPricingInfo(ReqSolana)>>

\* the elements of a list that pass the schema, in their order
SchemaValid(items) == SelectSeq(items, LAMBDA item : PaymentRequirementsSchema(item))

\* the list the probe's requirements were taken from
SourceList(response) ==
  IF HeaderYield(response.header) # <<>>
  THEN IF ValidOf(HeaderContent(response.header).b64) # <<>>
       THEN HeaderContent(response.header).b64.elems
       ELSE HeaderContent(response.header).raw.elems
  ELSE IF BodyContent(response.body).throws THEN <<>>
  ELSE BodyContent(response.body).accepts

\* C23: a pricing parse error never changes liveness: a settled probe that
\* received a 402 is alive with status code 402 and no error, whatever its
\* header and body hold; its requirements are the schema-valid elements of
\* the list they come from, in order, the invalid ones skipped; and its
\* pricing is empty when neither header nor body holds a valid element.
C23_ParseErrorKeepsAlive ==
  \A j \in DOMAIN probes :
    (probes[j].pc = "done" /\ probes[j].call.pc = "returned"
       /\ probes[j].call.response.status = 402) =>
      /\ probes[j].result.health.isAlive
      /\ probes[j].result.health.statusCode = 402
      /\ probes[j].result.health.error = NoError
      /\ probes[j].result.rawPaymentRequirements = SchemaValid(SourceList(probes[j].call.response))
      /\ Len(probes[j].result.pricing) = Len(probes[j].result.rawPaymentRequirements)
      /\ (HeaderYield(probes[j].call.response.header) = <<>>
            /\ BodyYield(probes[j].call.response.body) = <<>>) =>
           probes[j].result.pricing = <<>>

\* a 402 with an unparsable header and an accepts array of two valid
\* elements around an invalid one: alive, with the two valid ones
C23_Witness ==
  \E j \in DOMAIN probes :
    /\ probes[j].pc = "done" /\ probes[j].call.pc = "returned"
    /\ probes[j].call.response = Response(402, "garbage", "accepts-mixed")
    /\ probes[j].result.health.isAlive
    /\ probes[j].result.rawPaymentRequirements = <<ReqNoAmount, ReqSolana>>

\* the Index Run of the current runIndexer call ended as failed
RunFailed == \E r \in db.index_runs : r.id = ix.runId /\ r.status = "failed"

UrlInput(scheme, host) ==
  [url |-> scheme \o "://" \o host \o "/api", scheme |-> scheme, host |-> host]

Dotted(a, b, c, d) ==
  NumToString(a) \o "." \o NumToString(b) \o "." \o NumToString(c) \o "." \o NumToString(d)

\* first and second octets around every boundary of the rejected ranges
FirstOctets == {0, 1, 8, 9, 10, 11, 126, 127, 128, 168, 169, 170, 171, 172, 173, 191, 192, 193, 223, 255}

SecondOctets == {0, 1, 15, 16, 17, 31, 32, 167, 168, 169, 253, 254, 255}

LastOctets == { <<0, 1>>, <<255, 255>> }

Ipv4Samples ==
  { <<a, b, cd[1], cd[2]>> : a \in FirstOctets, b \in SecondOctets, cd \in LastOctets }

Ipv4Hosts == { Dotted(o[1], o[2], o[3], o[4]) : o \in Ipv4Samples }

\* the IPv4-mapped IPv6 literal of each sample, in dotted-decimal and in
\* hex-quad form
MappedDottedHosts == { "[::ffff:" \o h \o "]" : h \in Ipv4Hosts }

MappedHexHosts ==
  { "[::FFFF:" \o NumToHex(o[1] * 256 + o[2]) \o ":" \o NumToHex(o[3] * 256 + o[4]) \o "]" :
      o \in Ipv4Samples }

\* first groups around the boundaries of fc00::/7 and fe80::/10
FirstGroups ==
  { 252, 4072, 8193, 64511, 64512, 64513, 64767, 64768, 65023, 65024, 65151, 65152, 65153,
    65215, 65216, 65280 }

Ipv6Hosts ==
  { "[" \o NumToHex(g) \o "::1]" : g \in FirstGroups }
    \cup { "[" \o NumToHex(g) \o ":0:0:0:0:ffff:a00:1]" : g \in FirstGroups }
    \cup { "[FD00::]", "[Fe80::abcd:1]", "[::ffff:0:0]", "[0:0:0:0:0:ffff:7f00:1]",
           "[::a00:1]", "[::fffe:a00:1]", "[1::ffff:a00:1]" }

\* hosts of every kind validateUrl tells apart: ordinary domains, the
\* deny-listed names in several spellings, IPv4 hosts in short, integer and
\* octal form, IPv6 literals, and hosts `new URL` refuses
OtherHosts ==
  { "a.example", "API.Example.com", "localhost", "LOCALHOST", "metadata.google.internal",
    "Metadata.Goog", "127.0.0.1", "0.0.0.0", "169.254.169.254", "127.1", "2130706433", "0",
    "010.0.0.1", "012.0.0.1", "8.8.8.8", "10.0.0.1", "256.1.1.1", "1.2.3.4.5", "",
    "[::1]", "[::]", "[0:0:0:0:0:0:0:1]", "[0:0:0:0:0:0:0:0]", "[::1", "[::2]",
    "[2001:db8::1]", "[1::2::3]" }

Schemes == {"https", "HTTPS", "http", "ftp", "ws", "ssh"}

NotUrls ==
  { [url |-> "not a url", scheme |-> "", host |-> ""],
    [url |-> "", scheme |-> "", host |-> ""],
    [url |-> "//a.example/api", scheme |-> "", host |-> "a.example"] }

ValidatorInputs ==
  { UrlInput("https", host) : host \in Ipv4Hosts }
    \cup { UrlInput("https", host) : host \in MappedDottedHosts \cup MappedHexHosts \cup Ipv6Hosts }
    \cup { UrlInput(scheme, host) : scheme \in Schemes, host \in OtherHosts }
    \cup NotUrls

CallValidateUrl ==
  /\ pure.fn = "none"
  /\ \E input \in ValidatorInputs :
       pure' = [fn |-> "validateUrl", args |-> input, result |-> validateUrl(input.url)]
  /\ UNCHANGED <<nvars, svars, ivars, cvars, hvars>>

\* atomic amounts: integer strings (some beyond 2^53, with a sign or with
\* leading zeros), texts that are no integer, and an absent amount
AmountInputs ==
  { "0", "1", "10000", "1000000", "1500000", "123456789", "100000000", "2500000",
    "1000000000000000000", "1230000000000000000000", "99999999999999999999", "007",
    "+5", "-5", "-1500000", "abc", "1.5", "1e3", "12a", Undefined }

\* assets of 6, 8 and 18 decimals: table entries, a symbol, an unknown
\* address and a name
AssetInputs ==
  { "0x833589fCD6eDb6E08f4c7C32D4f71b54bdA02913", "0x2260FAC5E5542a773Aa44fBCfeDf7C193bc2C599",
    "0x4200000000000000000000000000000000000006", "USDC",
    "0x1111111111111111111111111111111111111111", "SOL" }

CallFormatAmount ==
  /\ pure.fn = "none"
  /\ \E atomicAmount \in AmountInputs, asset \in AssetInputs :
       pure' = [fn |-> "formatAmount",
                args |-> [atomicAmount |-> atomicAmount, asset |-> asset],
                result |-> formatAmount(atomicAmount, asset)]
  /\ UNCHANGED <<nvars, svars, ivars, cvars, hvars>>

\* every key of the table as listed, in upper and in lower case, two
\* checksummed spellings, the Solana mint address, unknown addresses and
\* asset names
TokenInputs ==
  UNION { { KNOWN_TOKENS[k][1], ToUpperCase(KNOWN_TOKENS[k][1]), ToLowerCase(KNOWN_TOKENS[k][1]) } :
            k \in 1..Len(KNOWN_TOKENS) }
    \cup { "0x833589fCD6eDb6E08f4c7C32D4f71b54bdA02913", "0x036CbD53842c5426634e7929541eC2318f3dCF7e",
           "EPjFWdd5AufqSSqeM2qN1xzybapC8G4wEGGkZwyTDt1v",
           "0x1234567890abcdef1234567890abcdef12345678", "0xDEADBEEF1234567890abcdef1234567890ABCDEF",
           "0x1234", "0x123456789", "0x1234567890", "SOL", "ETH", "USDC", "native",
           "WETH", "wrapped-USDC" }

CallGetAssetInfo ==
  /\ pure.fn = "none"
  /\ \E asset \in TokenInputs :
       pure' = [fn |-> "getAssetInfo",
                args |-> [asset |-> asset],
                result |-> [symbol |-> getAssetSymbol(asset), decimals |-> getAssetDecimals(asset)]]
  /\ UNCHANGED <<nvars, svars, ivars, cvars, hvars>>

NextPure ==
  \/ CallValidateUrl
  \/ CallFormatAmount
  \/ CallGetAssetInfo

SpecPure == Init /\ [][NextPure]_vars

\* the octets of a dotted-decimal literal
Octets(host) == [k \in 1..4 |-> ParseInt(Split(host, ".")[k], 10)]

IsIpv4Literal(host) ==
  /\ Len(Split(host, ".")) = 4
  /\ \A k \in 1..4 : AllDigits(Split(host, ".")[k]) /\ Octets(host)[k] <= 255
                      /\ NumToString(Octets(host)[k]) = Split(host, ".")[k]

RECURSIVE Pow2(_)
Pow2(n) == IF n = 0 THEN 1 ELSE 2 * Pow2(n - 1)

\* the address lies in base/len, for a prefix of at most 16 bits
InCidr(octets, base, len) ==
  (octets[1] * 256 + octets[2]) \div Pow2(16 - len)
    = (base[1] * 256 + base[2]) \div Pow2(16 - len)

RejectedCidrs ==
  { <<<<0, 0>>, 8>>, <<<<10, 0>>, 8>>, <<<<127, 0>>, 8>>,
    <<<<172, 16>>, 12>>, <<<<192, 168>>, 16>>, <<<<169, 254>>, 16>> }

InRejectedRange(octets) == \E r \in RejectedCidrs : InCidr(octets, r[1], r[2])

\* C25: for an https URL whose host is an IPv4 literal a.b.c.d, validateUrl
\* returns invalid exactly when the address lies in 0.0.0.0/8, 10.0.0.0/8,
\* 127.0.0.0/8, 172.16.0.0/12, 192.168.0.0/16 or 169.254.0.0/16.
C25_Ipv4RejectedExactlyInRanges ==
  (pure.fn = "validateUrl" /\ pure.args.scheme = "https" /\ IsIpv4Literal(pure.args.host)) =>
    (~pure.result.valid <=> InRejectedRange(Octets(pure.args.host)))

\* the last address of 172.16.0.0/12 is rejected
C25_Witness ==
  /\ pure.fn = "validateUrl"
  /\ pure.args.url = "https://172.31.255.255/api"
  /\ ~pure.result.valid

\* the eight pieces of the bracketed hostname the URL API returned
PiecesOf(hostname) == Ipv6Pieces(SubSeq(hostname, 2, Len(hostname) - 1))

IsIpv6Literal(hostname) == Len(hostname) > 2 /\ At(hostname, 1) = "["

MappedOctets(pieces) ==
  <<pieces[7] \div 256, pieces[7] % 256, pieces[8] \div 256, pieces[8] % 256>>

\* loopback, unspecified, fc00::/7, fe80::/10, or IPv4-mapped with the
\* embedded address in a rejected IPv4 range
PrivateIpv6(pieces) ==
  \/ pieces = <<0, 0, 0, 0, 0, 0, 0, 1>>
  \/ pieces = <<0, 0, 0, 0, 0, 0, 0, 0>>
  \/ pieces[1] \div 512 = 64512 \div 512
  \/ pieces[1] \div 64 = 65152 \div 64
  \/ /\ \A k \in 1..5 : pieces[k] = 0
     /\ pieces[6] = 65535
     /\ InRejectedRange(MappedOctets(pieces))

DenyListed ==
  { "localhost", "127.0.0.1", "0.0.0.0", "[::1]", "[::]", "metadata.google.internal",
    "metadata.goog", "169.254.169.254" }

\* the rule that decides a URL, the rules taken in order
DecidingRule(parsed) ==
  IF ~parsed.ok THEN "Invalid URL format"
  ELSE IF parsed.protocol # "https:" THEN "Invalid protocol: "
  ELSE IF parsed.hostname \in DenyListed THEN "Blocked hostname: "
  ELSE IF IsIpv4Literal(parsed.hostname) /\ InRejectedRange(Octets(parsed.hostname))
  THEN "Blocked private IP: "
  ELSE IF IsIpv6Literal(parsed.hostname) /\ PrivateIpv6(PiecesOf(parsed.hostname))
  THEN "Blocked private IPv6: "
  ELSE "valid"

\* C26: validateUrl applies its rules in order, the first match deciding
\* (malformed URL, non-https scheme, deny-listed hostname, private IPv4,
\* private IPv6, otherwise valid): the reason returned is that of the first
\* rule that matches, a URL whose scheme is not https is invalid whatever
\* its host, and there is an error reason exactly when valid is false.
C26_RulesInOrder ==
  (pure.fn = "validateUrl") =>
    /\ pure.result.valid <=> DecidingRule(ParseURL(pure.args.url)) = "valid"
    /\ pure.result.valid <=> pure.result.error = Undefined
    /\ ~pure.result.valid => StartsWith(pure.result.error, DecidingRule(ParseURL(pure.args.url)))
    /\ (ParseURL(pure.args.url).ok /\ ParseURL(pure.args.url).protocol # "https:")
         => ~pure.result.valid

\* a deny-listed host over http is refused for its scheme
C26_Witness ==
  /\ pure.fn = "validateUrl"
  /\ pure.args.url = "http://localhost/api"
  /\ ~pure.result.valid
  /\ pure.result.error = "Invalid protocol: http: (only https:// allowed)"

\* the pieces of the IPv6 literal given as the host of the URL
GivenPieces == Ipv6Pieces(SubSeq(pure.args.host, 2, Len(pure.args.host) - 1))

IsMapped(pieces) == (\A k \in 1..5 : pieces[k] = 0) /\ pieces[6] = 65535

\* C27: for an https URL whose host is an IPv6 literal, validateUrl returns
\* invalid for ::1, for ::, for every address of fc00::/7 and of fe80::/10,
\* and for every IPv4-mapped address ::ffff:a.b.c.d, written in dotted or
\* in hex-quad form, whose embedded IPv4 address lies in a rejected IPv4
\* range; the hex quad hhhh:llll stands for the octets h div 256, h mod 256,
\* l div 256, l mod 256.
C27_PrivateIpv6Rejected ==
  (pure.fn = "validateUrl" /\ pure.args.scheme = "https"
     /\ IsIpv6Literal(pure.args.host) /\ GivenPieces # <<>>) =>
    /\ PrivateIpv6(GivenPieces) => ~pure.result.valid
    /\ IsMapped(GivenPieces) =>
         HexPairToIPv4(NumToHex(GivenPieces[7]) \o ":" \o NumToHex(GivenPieces[8]))
           = Dotted(GivenPieces[7] \div 256, GivenPieces[7] % 256,
                    GivenPieces[8] \div 256, GivenPieces[8] % 256)

\* 172.16.0.1 mapped into IPv6 and written as a hex quad is rejected
C27_Witness ==
  /\ pure.fn = "validateUrl"
  /\ pure.args.host = "[::FFFF:ac10:1]"
  /\ ~pure.result.valid
  /\ pure.result.error = "Blocked private IPv6: [::ffff:ac10:1]"

\* an optional sign and one or more decimal digits
IsIntegerString(s) ==
  s # Undefined /\ AllDigits(IF Len(s) > 0 /\ At(s, 1) \in {"-", "+"} THEN Slice(s, 1) ELSE s)

Magnitude(s) == StripLeadingZeros(IF At(s, 1) \in {"-", "+"} THEN Slice(s, 1) ELSE s)

IsNegative(s) == At(s, 1) = "-" /\ Magnitude(s) # ""

RECURSIVE PadEnd(_, _, _)
PadEnd(s, width, fill) == IF Len(s) >= width THEN s ELSE PadEnd(s \o fill, width, fill)

\* the number and the symbol of "<number> <symbol>"
NumberOf(text) == Split(text, " ")[1]

WholeOf(text) == Split(NumberOf(text), ".")[1]

FractionOf(text) ==
  IF Len(Split(NumberOf(text), ".")) = 1 THEN "" ELSE Split(NumberOf(text), ".")[2]

UnsignedWhole(text) ==
  IF StartsWith(WholeOf(text), "-") THEN Slice(WholeOf(text), 1) ELSE WholeOf(text)

\* the text renders amount / 10^d exactly: "<whole>[.<frac>] <symbol>" with
\* whole and frac decimal digits, frac present only when non-zero, of at
\* most d digits and without trailing zeros, and whole * 10^d + frac equal
\* to the amount
RendersExactly(text, amount, d, symbol) ==
  /\ Len(Split(text, " ")) = 2 /\ Split(text, " ")[2] = symbol
  /\ Len(Split(NumberOf(text), ".")) \in {1, 2}
  /\ AllDigits(UnsignedWhole(text))
  /\ UnsignedWhole(text) = "0" \/ At(UnsignedWhole(text), 1) # "0"
  /\ Len(Split(NumberOf(text), ".")) = 2 =>
       /\ AllDigits(FractionOf(text))
       /\ Len(FractionOf(text)) <= d
       /\ At(FractionOf(text), Len(FractionOf(text))) # "0"
  /\ StripLeadingZeros(UnsignedWhole(text) \o PadEnd(FractionOf(text), d, "0")) = Magnitude(amount)
  /\ StartsWith(NumberOf(text), "-") <=> IsNegative(amount)

FormatExamples ==
  { <<"1000000", "1 USDC">>, <<"10000", "0.01 USDC">>, <<"1", "0.000001 USDC">>,
    <<"0", "0 USDC">> }

\* C28: for every atomic amount that is an integer string and every asset
\* of d decimals, formatAmount renders amount / 10^d exactly, as the whole
\* part, then a dot and the fraction without trailing zeros only when the
\* remainder is non-zero, then the symbol (1000000 -> "1 USDC", 10000 ->
\* "0.01 USDC", 1 -> "0.000001 USDC", 0 -> "0 USDC"); an amount that is no
\* number yields "<raw> (raw)".
C28_FormatAmountExact ==
  (pure.fn = "formatAmount") =>
    /\ IsIntegerString(pure.args.atomicAmount) =>
         RendersExactly(pure.result, pure.args.atomicAmount,
                        getAssetDecimals(pure.args.asset), getAssetSymbol(pure.args.asset))
    /\ (pure.args.atomicAmount # Undefined /\ ~IsIntegerString(pure.args.atomicAmount)) =>
         pure.result = pure.args.atomicAmount \o " (raw)"
    /\ pure.args.asset = "USDC" =>
         \A e \in FormatExamples : pure.args.atomicAmount = e[1] => pure.result = e[2]

\* the same for amounts that are not negative
NonNegativeAmountsExact ==
  (pure.fn = "formatAmount" /\ pure.args.atomicAmount # Undefined
     /\ ~StartsWith(pure.args.atomicAmount, "-")) => C28_FormatAmountExact

\* the asset is the k-th address of the table up to letter case
ListedAs(asset, k) == ToLowerCase(asset) = ToLowerCase(KNOWN_TOKENS[k][1])

Listed(asset) == \E k \in 1..Len(KNOWN_TOKENS) : ListedAs(asset, k)

\* C29: token lookup is case-insensitive over the whole table: for every
\* address listed in it, in whatever letter case, getAssetSymbol and
\* getAssetDecimals return the entry's symbol and decimals; an unknown 0x
\* address of more than 10 characters gets 18 decimals and its first 6 and
\* last 4 characters joined by "..." as symbol; an identifier that is no
\* address is its own symbol.
C29_TokenLookup ==
  (pure.fn = "getAssetInfo") =>
    /\ \A k \in 1..Len(KNOWN_TOKENS) :
         ListedAs(pure.args.asset, k) =>
           /\ pure.result.symbol = KNOWN_TOKENS[k][2]
           /\ pure.result.decimals = KNOWN_TOKENS[k][3]
    /\ (~Listed(pure.args.asset) /\ StartsWith(pure.args.asset, "0x")
          /\ Len(pure.args.asset) > 10) =>
         /\ pure.result.decimals = 18
         /\ pure.result.symbol
              = SubSeq(pure.args.asset, 1, 6) \o "..."
                  \o SubSeq(pure.args.asset, Len(pure.args.asset) - 3, Len(pure.args.asset))
    /\ (~Listed(pure.args.asset) /\ ~StartsWith(pure.args.asset, "0x")) =>
         pure.result.symbol = pure.args.asset

\* What holds: the same for the table's 0x addresses, and for identifiers
\* that hold none of the symbols getTokenInfo searches for.
ListedEvm(asset) ==
  \E k \in 1..Len(KNOWN_TOKENS) : ListedAs(asset, k) /\ StartsWith(KNOWN_TOKENS[k][1], "0x")

NamesSymbol(asset) ==
  \E word \in {"USDC", "USDT", "ETH", "BTC", "DAI"} : Includes(ToUpperCase(asset), word)

TokenLookupOfEvmEntries ==
  (pure.fn = "getAssetInfo"
     /\ (Listed(pure.args.asset) => ListedEvm(pure.args.asset))
     /\ (NamesSymbol(pure.args.asset) => pure.args.asset \in {"USDC", "ETH"}))
    => C29_TokenLookup

\* the fetchWithRetry calls in progress or settled: the direct one and
\* those of the probes
RetryCalls ==
  (IF op = "fetchWithRetry" THEN {rcall} ELSE {})
    \cup { probes[j].call : j \in { m \in DOMAIN probes : probes[m].call.calls > 0 } }

\* waits[k] is the delay slept between attempt k - 1 and attempt k
\* (attempts counted from 0): one wait per attempt made after the first
WaitsMatchAttempts(call) ==
  Len(call.waits) = IF call.pc = "sleep" THEN call.calls
                    ELSE IF call.calls = 0 THEN 0 ELSE call.calls - 1

\* C30 as stated: the delay waited before attempt k (counted from 0) is
\* baseDelayMs * 2^k, for every attempt that is made after a wait.
C30_DelayBeforeAttemptK ==
  \A call \in RetryCalls :
    \A k \in 1..Len(call.waits) : call.waits[k] = call.retryDelayMs * (2 ^ k)

\* C30 amended: nothing is waited before attempt 0; the delay waited after
\* the failed attempt k (counted from 0), that is before attempt k + 1, is
\* baseDelayMs * 2^k; with the health checker's 2 retries and base of
\* 500 ms the waits of one probe are 500 ms and then 1000 ms.
C30_DelayAfterAttemptK ==
  /\ \A call \in RetryCalls :
       /\ WaitsMatchAttempts(call)
       /\ \A k \in 0..(Len(call.waits) - 1) : call.waits[k + 1] = call.retryDelayMs * (2 ^ k)
  /\ \A j \in DOMAIN probes :
       probes[j].call.calls > 0 =>
         /\ probes[j].call.retries = 2 /\ probes[j].call.retryDelayMs = 500
         /\ probes[j].call.waits \in { <<>>, <<500>>, <<500, 1000>> }

\* a probe whose first two attempts failed makes its third attempt after
\* waits of 500 ms and 1000 ms
C30_Witness ==
  \E j \in DOMAIN probes :
    /\ probes[j].call.calls = 3
    /\ probes[j].call.waits = <<500, 1000>>

\* the tables a reader or the open transaction can see
Tables == {db, tx.work}

\* the position of the last entry of a pricing list with the key of entry k
LastOfKey(pricing, k) ==
  CHOOSE m \in k..Len(pricing) :
    /\ pricing[m].network = pricing[k].network /\ pricing[m].asset = pricing[k].asset
    /\ \A n \in (m + 1)..Len(pricing) :
         ~(pricing[n].network = pricing[k].network /\ pricing[n].asset = pricing[k].asset)

\* the stored row carries the five columns the conflict clause sets
StoresEntry(row, entry) ==
  /\ row.scheme = entry.scheme
  /\ row.maxAmountRequired = entry.maxAmountRequired
  /\ row.formattedAmount = OrNull(entry.formattedAmount, Undefined)
  /\ row.payTo = entry.payTo
  /\ row.maxTimeoutSeconds = entry.maxTimeoutSeconds

\* C31: the store never holds two pricing rows with one (resource, network,
\* asset); after an upsert returned, each key of its pricing list has the
\* row of the list's last entry with that key, and a key stored before the
\* upsert kept its row (same id) with the five columns rewritten.
C31_OnePricingPerKey ==
  /\ \A store \in Tables :
       \A p, q \in store.payment_requirements :
         (p.resourceId = q.resourceId /\ p.network = q.network /\ p.asset = q.asset) => p = q
  /\ UpsertEnded("returned") =>
       \A k \in 1..Len(last.resource.pricing) :
         \E row \in db.payment_requirements :
           /\ SameRequirementKey(row, last.id, last.resource.pricing[k])
           /\ StoresEntry(row, last.resource.pricing[LastOfKey(last.resource.pricing, k)])
           /\ \A old \in last.before.payment_requirements :
                SameRequirementKey(old, last.id, last.resource.pricing[k]) => old.id = row.id

\* an upsert whose list names one key twice returned, for a key stored
\* before with another amount: the row kept its id and holds the later entry
C31_Witness ==
  /\ UpsertEnded("returned")
  /\ \E k \in 1..Len(last.resource.pricing) :
       /\ LastOfKey(last.resource.pricing, k) > k
       /\ last.resource.pricing[LastOfKey(last.resource.pricing, k)].maxAmountRequired
            # last.resource.pricing[k].maxAmountRequired
       /\ \E old \in last.before.payment_requirements :
            /\ SameRequirementKey(old, last.id, last.resource.pricing[k])
            /\ old.maxAmountRequired = last.resource.pricing[k].maxAmountRequired
            /\ \E row \in db.payment_requirements :
                 /\ row.id = old.id
                 /\ row.maxAmountRequired
                      = last.resource.pricing[LastOfKey(last.resource.pricing, k)].maxAmountRequired

\* the formattedAmount column is NULL (the upserted entry carried none) or
\* the rendering of the row's own amount and asset
ProjectsOwnAmount(row) ==
  row.formattedAmount \in {SqlNull, <<formatAmount(row.maxAmountRequired, row.asset)>>}

\* the pricing entry came from a probe (convertToPricingInfo), not from the
\* accepts list of the discovery API
FromProbe(entry) == entry.formattedAmount # Undefined

\* C32: a pricing entry produced by a probe carries formatAmount of its own
\* amount and asset; every stored pricing row, committed or inside the open
\* transaction, has a formattedAmount that is absent or the rendering of the
\* amount and asset now stored in that row, so a changed amount never stays
\* paired with the rendering of the amount it replaced.
C32_FormattedAmountFollowsAmount ==
  /\ \A k \in 1..Len(tx.resource.pricing) :
       FromProbe(tx.resource.pricing[k]) =>
         tx.resource.pricing[k].formattedAmount
           = formatAmount(tx.resource.pricing[k].maxAmountRequired, tx.resource.pricing[k].asset)
  /\ \A store \in Tables : \A row \in store.payment_requirements : ProjectsOwnAmount(row)
  /\ UpsertEnded("returned") =>
       \A old \in last.before.payment_requirements : \A row \in db.payment_requirements :
         (row.id = old.id /\ row.maxAmountRequired # old.maxAmountRequired) =>
           row.formattedAmount # old.formattedAmount

\* an upsert returned that changed the amount of a stored row whose
\* formattedAmount was present; the row no longer holds that rendering
C32_Witness ==
  /\ UpsertEnded("returned")
  /\ \E old \in last.before.payment_requirements : \E row \in db.payment_requirements :
       /\ row.id = old.id
       /\ row.maxAmountRequired # old.maxAmountRequired
       /\ old.formattedAmount # SqlNull
       /\ row.formattedAmount # old.formattedAmount

\* the checkEndpoint calls that have returned
DoneProbes == { j \in DOMAIN probes : probes[j].pc = "done" }

\* the two groups of a Health Check Result
StatusGroup(health) == health.statusCode # NoNumber /\ health.latencyMs # NoNumber

NoStatusGroup(health) == health.statusCode = NoNumber /\ health.latencyMs = NoNumber

ErrorGroup(health) == health.error # NoError

\* where the result of a returned checkEndpoint call came from
FromValidation(probe) == probe.call.calls = 0

FromResponse(probe) == probe.call.pc = "returned"

FromTransport(probe) == probe.call.pc = "thrown"

\* C33 as stated: a result with alive=false populates exactly one of the
\* groups {statusCode, latencyMs} and {error}: from an HTTP response the
\* first and no error, from a validation or transport failure the error and
\* neither statusCode nor latencyMs; an alive result has no error.
C33_ExactlyOneGroup ==
  \A j \in DoneProbes :
    /\ ~probes[j].result.health.isAlive =>
         /\ FromResponse(probes[j]) =>
              StatusGroup(probes[j].result.health) /\ ~ErrorGroup(probes[j].result.health)
         /\ (FromValidation(probes[j]) \/ FromTransport(probes[j])) =>
              ErrorGroup(probes[j].result.health) /\ NoStatusGroup(probes[j].result.health)
    /\ probes[j].result.health.isAlive => ~ErrorGroup(probes[j].result.health)

\* C33 amended: a result with alive=false has statusCode or error, never
\* both: from an HTTP response statusCode and latencyMs and no error; from a
\* validation failure error and neither statusCode nor latencyMs; from a
\* transport failure (timeout included) error and latencyMs, the time the
\* probe took, and no statusCode.  An alive result has statusCode and
\* latencyMs and no error.
C33_StatusOrError ==
  \A j \in DoneProbes :
    /\ FromValidation(probes[j]) \/ FromResponse(probes[j]) \/ FromTransport(probes[j])
    /\ ~probes[j].result.health.isAlive =>
         /\ FromResponse(probes[j]) =>
              StatusGroup(probes[j].result.health) /\ ~ErrorGroup(probes[j].result.health)
         /\ FromValidation(probes[j]) =>
              ErrorGroup(probes[j].result.health) /\ NoStatusGroup(probes[j].result.health)
         /\ FromTransport(probes[j]) =>
              /\ ErrorGroup(probes[j].result.health)
              /\ probes[j].result.health.statusCode = NoNumber
              /\ probes[j].result.health.latencyMs = probes[j].call.elapsed
              /\ probes[j].result.health.latencyMs # NoNumber
    /\ probes[j].result.health.isAlive =>
         /\ FromResponse(probes[j])
         /\ StatusGroup(probes[j].result.health)
         /\ ~ErrorGroup(probes[j].result.health)

\* three probes have returned dead, one of each origin: a rejected URL, a
\* non-alive status and a transport failure
C33_Witness ==
  /\ \E j \in DoneProbes : FromValidation(probes[j])
  /\ \E j \in DoneProbes : FromResponse(probes[j]) /\ ~probes[j].result.health.isAlive
  /\ \E j \in DoneProbes :
       FromTransport(probes[j]) /\ probes[j].result.health.latencyMs # NoNumber

\* no probe makes more than retries + 1 requests
AttemptsBounded ==
  \A j \in DOMAIN probes : probes[j].call.calls <= probes[j].call.retries + 1

\* the setTimeout that bounds what a probe awaits: during a request the
\* abort timer of fetchWithTimeout, during the backoff the timer of sleep
TimerPending(probe) ==
  \/ probe.call.pc = "fetch" /\ probe.call.timer = "armed"
  \/ probe.call.pc = "sleep"

\* C34: checkEndpoints always returns because nothing a probe waits for is
\* unbounded: a probe makes at most retries + 1 attempts, and whatever a
\* probe that has not returned is awaiting (the request, the backoff, the
\* body of a 402 response) is ended at the latest by a pending timer of
\* that probe, so every chunk finishes.
C34_EveryAwaitUnderTimer ==
  /\ AttemptsBounded
  /\ \A j \in DOMAIN probes :
       probes[j].pc \in {"request", "body"} => TimerPending(probes[j])

\* the fetchWithRetry calls made so far, each with the script of its endpoint
TimedCalls ==
  (IF op = "fetchWithRetry" THEN {<<rcall, endpoints[RetryUrl]>>} ELSE {})
    \cup { <<probes[j].call, endpoints[probes[j].url]>> :
             j \in { m \in DOMAIN probes : probes[m].call.calls > 0 } }

\* how the n-th fetchWithTimeout call against a script must settle: with the
\* response, with the error the request rejected with, or with the abort
SettlesAs(script, n) ==
  CASE StubEntry(script, n) = "R" -> LogResponse(script.final.status)
    [] StubEntry(script, n) = "H" -> LogError(AbortError)
    [] OTHER -> LogError(StubError(StubEntry(script, n), n))

\* the time a call's settled requests took: timeoutMs for one that was
\* aborted, the round trip for one that settled by itself
RequestTimes(call, script) ==
  [n \in 1..Len(call.log) |->
     IF StubEntry(script, n) = "H" THEN call.timeoutMs ELSE RoundTripMs]

\* C35: while fetchWithTimeout awaits the request its timer is armed; a
\* request not settled by timeoutMs is aborted at timeoutMs and the call
\* rejects with the abort error; a request that settles earlier clears the
\* timer, so once fetchWithTimeout has settled its timer is cleared or spent
\* and never pending; the response, or the error the request rejected with,
\* is handed on unchanged.
C35_TimerNeverOutlivesCall ==
  \A pair \in TimedCalls :
    /\ pair[1].pc = "fetch" =>
         pair[1].timer = "armed" /\ Len(pair[1].log) = pair[1].calls - 1
    /\ pair[1].pc # "fetch" =>
         /\ Len(pair[1].log) = pair[1].calls
         /\ pair[1].timer = IF StubEntry(pair[2], pair[1].calls) = "H" THEN "fired" ELSE "cleared"
    /\ \A n \in 1..Len(pair[1].log) : pair[1].log[n] = SettlesAs(pair[2], n)
    /\ pair[1].pc \in {"returned", "thrown"} =>
         pair[1].elapsed = SumOf(RequestTimes(pair[1], pair[2])) + SumOf(pair[1].waits)

\* a call has returned a response after one request that was aborted at
\* the timeout and one that rejected with a network error
C35_Witness ==
  \E pair \in TimedCalls :
    /\ pair[1].pc = "returned" /\ pair[1].timer = "cleared"
    /\ \E n \in 1..Len(pair[1].log) : pair[1].log[n] = LogError(AbortError)
    /\ \E n \in 1..Len(pair[1].log) : pair[1].log[n] = LogError(StubError("T", n))

\* ------------------------------------------------------------------------
\* Database client singleton (db/client.ts)
\* ------------------------------------------------------------------------
MaxClients == 3

\* process.cwd()
Cwd == "/work"

\* path.resolve: the segments of an absolute path with "", "." and ".."
\* resolved, onto the segments kept so far
RECURSIVE NormalizeSegments(_, _)
NormalizeSegments(segments, kept) ==
  IF Len(segments) = 0 THEN kept
  ELSE IF Head(segments) \in {"", "."} THEN NormalizeSegments(Tail(segments), kept)
  ELSE IF Head(segments) = ".."
       THEN NormalizeSegments(Tail(segments),
                              IF Len(kept) = 0 THEN kept ELSE SubSeq(kept, 1, Len(kept) - 1))
  ELSE NormalizeSegments(Tail(segments), Append(kept, Head(segments)))

RECURSIVE JoinSegments(_)
JoinSegments(segments) ==
  IF Len(segments) = 0 THEN "" ELSE "/" \o Head(segments) \o JoinSegments(Tail(segments))

\* resolve(dbPath) of node:path (POSIX)
resolve(dbPath) ==
  LET absolute == IF StartsWith(dbPath, "/") THEN dbPath ELSE Cwd \o "/" \o dbPath
      segments == NormalizeSegments(Split(absolute, "/"), <<>>)
  IN IF Len(segments) = 0 THEN "/" ELSE JoinSegments(segments)

\* createClient({ url: `file:${resolvedPath}` })
createClient(resolvedPath) == [url |-> "file:" \o resolvedPath, open |-> TRUE]

\* what a call did: the module state after it, and its return or throw
DbOutcome(state, outcome, result) == [state |-> state, outcome |-> outcome, result |-> result]

\* getDatabase that hands out the open client whatever path is asked for
getDatabase_AnyPath(m, dbPath) ==
  IF m.dbClient # NoClient
  THEN DbOutcome(m, "returned", m.dbClient)
  ELSE DbOutcome(ModuleState(Len(m.clients) + 1, resolve(dbPath),
                             Append(m.clients, createClient(resolve(dbPath)))),
                 "returned", Len(m.clients) + 1)

\* getDatabase(dbPath) on the module state m
getDatabase(m, dbPath) ==
  IF m.dbClient # NoClient
  THEN IF m.currentDbPath # resolve(dbPath)
       THEN DbOutcome(m, "thrown", NoClient)
       ELSE DbOutcome(m, "returned", m.dbClient)
  ELSE DbOutcome(ModuleState(Len(m.clients) + 1, resolve(dbPath),
                             Append(m.clients, createClient(resolve(dbPath)))),
                 "returned", Len(m.clients) + 1)

\* closeDatabase() on the module state m
closeDatabase(m) ==
  IF m.dbClient # NoClient
  THEN ModuleState(NoClient, "", [m.clients EXCEPT ![m.dbClient].open = FALSE])
  ELSE m

\* the dbPath arguments; Undefined is the call without argument
DbPaths == {Undefined, "x402.db", "./data/../x402.db", "/work/x402.db", "other.db", "/data/x402.db"}

\* dbPath = "./x402.db"
DbPathOrDefault(dbPath) == IF dbPath = Undefined THEN "./x402.db" ELSE dbPath

SetModuleState(m) ==
  /\ dbClient' = m.dbClient
  /\ currentDbPath' = m.currentDbPath
  /\ clients' = m.clients

CallGetDatabase ==
  /\ Len(clients) < MaxClients \/ dbClient # NoClient
  /\ \E dbPath \in DbPaths :
       /\ SetModuleState(
            getDatabase(ModuleState(dbClient, currentDbPath, clients), DbPathOrDefault(dbPath)).state)
       /\ dbCall' =
            [fn |-> "getDatabase", dbPath |-> DbPathOrDefault(dbPath),
             outcome |-> getDatabase(ModuleState(dbClient, currentDbPath, clients),
                                     DbPathOrDefault(dbPath)).outcome,
             result |-> getDatabase(ModuleState(dbClient, currentDbPath, clients),
                                    DbPathOrDefault(dbPath)).result,
             before |-> ModuleState(dbClient, currentDbPath, clients)]
  /\ UNCHANGED <<nvars, svars, ivars, cvars, pvars>>

CallCloseDatabase ==
  /\ SetModuleState(closeDatabase(ModuleState(dbClient, currentDbPath, clients)))
  /\ dbCall' = [fn |-> "closeDatabase", dbPath |-> "", outcome |-> "returned", result |-> NoClient,
                before |-> ModuleState(dbClient, currentDbPath, clients)]
  /\ UNCHANGED <<nvars, svars, ivars, cvars, pvars>>

NextHandle ==
  \/ CallGetDatabase
  \/ CallCloseDatabase

SpecHandle == Init /\ [][NextHandle]_vars

\* the clients that are open
OpenClients == { n \in DOMAIN clients : clients[n].open }

\* the module state now
Module == ModuleState(dbClient, currentDbPath, clients)

\* C36: at most one client is open, and it is the one dbClient holds;
\* getDatabase with the path of the open client returns that client and
\* creates none; with another path while a client is open it throws and
\* leaves client and path as they were; with no client open it opens the
\* path asked for, whatever was open before; closeDatabase closes the open
\* client and with none open changes nothing.
C36_GuardedSingleton ==
  /\ Cardinality(OpenClients) <= 1
  /\ OpenClients = IF dbClient = NoClient THEN {} ELSE {dbClient}
  /\ dbClient # NoClient => clients[dbClient].url = "file:" \o currentDbPath
  /\ (dbCall.fn = "getDatabase" /\ dbCall.before.dbClient # NoClient
        /\ resolve(dbCall.dbPath) = dbCall.before.currentDbPath) =>
       /\ dbCall.outcome = "returned" /\ dbCall.result = dbCall.before.dbClient
       /\ Module = dbCall.before
  /\ (dbCall.fn = "getDatabase" /\ dbCall.before.dbClient # NoClient
        /\ resolve(dbCall.dbPath) # dbCall.before.currentDbPath) =>
       /\ dbCall.outcome = "thrown"
       /\ Module = dbCall.before
  /\ (dbCall.fn = "getDatabase" /\ dbCall.before.dbClient = NoClient) =>
       /\ dbCall.outcome = "returned" /\ dbCall.result = dbClient
       /\ dbClient = Len(dbCall.before.clients) + 1
       /\ currentDbPath = resolve(dbCall.dbPath)
       /\ clients = Append(dbCall.before.clients, createClient(resolve(dbCall.dbPath)))
  /\ (dbCall.fn = "closeDatabase" /\ dbCall.before.dbClient = NoClient) => Module = dbCall.before
  /\ (dbCall.fn = "closeDatabase" /\ dbCall.before.dbClient # NoClient) =>
       /\ dbClient = NoClient /\ currentDbPath = ""
       /\ ~clients[dbCall.before.dbClient].open

\* a client on other.db was closed, a second one opened on x402.db, and
\* getDatabase was then refused /data/x402.db
C36_Witness ==
  /\ dbCall.fn = "getDatabase" /\ dbCall.outcome = "thrown"
  /\ currentDbPath = "/work/x402.db" /\ dbCall.dbPath = "/data/x402.db"
  /\ Len(clients) = 2 /\ clients[1].url = "file:/work/other.db" /\ ~clients[1].open
  /\ clients[2].open

\* the ids of the resource rows of a store
ResourceIds(store) == { r.id : r \in store.resources }

\* the resources that the rows of the dependent tables refer to
ReferredIds(store) ==
  { p.resourceId : p \in store.payment_requirements }
    \cup { h.resourceId : h \in store.health_checks }
    \cup { a.resourceId : a \in store.resource_health }

AggregatesOf(store, id) == { a \in store.resource_health : a.resourceId = id }

\* C37: every committed resource row has exactly one aggregate row; no
\* pricing, history or aggregate row, committed or inside the open
\* transaction, refers to a resource that does not exist; an upsert of a
\* stored resource keeps its one aggregate row and rewrites it with the new
\* check; an aggregate row present before a call is gone after it only if
\* the call was cleanupStaleResources and purged the owning resource, and
\* then none of that resource's pricing and history rows is left.
C37_AggregateLivesWithResource ==
  /\ \A r \in db.resources : Cardinality(AggregatesOf(db, r.id)) = 1
  /\ \A store \in Tables : ReferredIds(store) \subseteq ResourceIds(store)
  /\ (UpsertEnded("returned") /\ last.id \in ResourceIds(last.before)) =>
       \A a \in AggregatesOf(db, last.id) : a.checkedAt = last.resource.health.checkedAt
  /\ \A a \in last.before.resource_health :
       AggregatesOf(db, a.resourceId) = {} =>
         /\ last.op = "cleanupStaleResources"
         /\ a.resourceId \notin ResourceIds(db)
         /\ a.resourceId \notin ReferredIds(db)

\* cleanupStaleResources purged a resource that had pricing, history and
\* aggregate rows and kept another resource with its aggregate row
C37_Witness ==
  /\ last.op = "cleanupStaleResources"
  /\ \E gone \in ResourceIds(last.before) \ ResourceIds(db) :
       /\ \E p \in last.before.payment_requirements : p.resourceId = gone
       /\ \E h \in last.before.health_checks : h.resourceId = gone
       /\ \E a \in last.before.resource_health : a.resourceId = gone
  /\ \E r \in db.resources : Cardinality(AggregatesOf(db, r.id)) = 1

\* the (resource, network, asset) keys of the pricing rows of a store
PricingKeys(store) ==
  { <<p.resourceId, p.network, p.asset>> : p \in store.payment_requirements }

\* the (network, asset) keys an upserted resource advertises
AdvertisedKeys(resource) ==
  { <<resource.pricing[k].network, resource.pricing[k].asset>> : k \in 1..Len(resource.pricing) }

\* C38: upsertResource deletes no pricing row: during the call, inside its
\* transaction, and after it returned or was rejected, every (resource,
\* network, asset) key stored before the call is still stored, also the
\* keys that the upserted resource no longer advertises.
C38_PricingKeysOnlyGrow ==
  last.op = "upsertResource" =>
    /\ PricingKeys(last.before) \subseteq PricingKeys(db)
    /\ tx.pc # "idle" => PricingKeys(last.before) \subseteq PricingKeys(tx.work)
    /\ \A p \in last.before.payment_requirements :
         \E q \in db.payment_requirements : q.id = p.id /\ q.resourceId = p.resourceId

\* an upsert returned for a resource that had a stored key which the
\* upserted pricing list does not name; the key is still stored
C38_Witness ==
  /\ UpsertEnded("returned")
  /\ Len(last.resource.pricing) > 0
  /\ \E p \in last.before.payment_requirements :
       /\ p.resourceId = last.id
       /\ <<p.network, p.asset>> \notin AdvertisedKeys(last.resource)
       /\ <<p.resourceId, p.network, p.asset>> \in PricingKeys(db)

\* runIndexer has computed its summary
SummaryProduced == ix.pc \in {"start", "loop", "upserting", "returned", "thrown"}

\* the merged resources that are alive and have a recorded latency
AliveWithLatency ==
  { k \in DOMAIN ix.resources :
      ix.resources[k].health.isAlive /\ ix.resources[k].health.latencyMs # NoNumber }

RECURSIVE LatencySum(_)
LatencySum(ks) ==
  IF ks = {} THEN 0
  ELSE LET k == CHOOSE x \in ks : TRUE
       IN ix.resources[k].health.latencyMs + LatencySum(ks \ {k})

RECURSIVE CountSum(_, _)
CountSum(counts, cs) ==
  IF cs = {} THEN 0
  ELSE LET c == CHOOSE x \in cs : TRUE IN counts[c] + CountSum(counts, cs \ {c})

\* min and max are latencies of alive resources that bound all of them, and
\* avg is their mean rounded to the nearest integer, halves upwards
LatencyFiguresOverAlive(summary) ==
  IF AliveWithLatency = {}
  THEN /\ summary.avgLatencyMs = NoNumber
       /\ summary.minLatencyMs = NoNumber
       /\ summary.maxLatencyMs = NoNumber
  ELSE /\ \E k \in AliveWithLatency : summary.minLatencyMs = ix.resources[k].health.latencyMs
       /\ \E k \in AliveWithLatency : summary.maxLatencyMs = ix.resources[k].health.latencyMs
       /\ \A k \in AliveWithLatency :
            /\ summary.minLatencyMs <= ix.resources[k].health.latencyMs
            /\ ix.resources[k].health.latencyMs <= summary.maxLatencyMs
       /\ summary.minLatencyMs <= summary.avgLatencyMs
       /\ summary.avgLatencyMs <= summary.maxLatencyMs
       /\ 2 * Cardinality(AliveWithLatency) * summary.avgLatencyMs - Cardinality(AliveWithLatency)
            <= 2 * LatencySum(AliveWithLatency)
       /\ 2 * LatencySum(AliveWithLatency)
            < 2 * Cardinality(AliveWithLatency) * summary.avgLatencyMs + Cardinality(AliveWithLatency)

\* the index run of this call of runIndexer, once completed
CompletedRunRows ==
  { r \in db.index_runs : r.id = ix.runId /\ r.status = "completed" }

\* C39: in every summary of runIndexer totalResources is the number of
\* merged resources, aliveCount + deadCount = totalResources, the byCategory
\* counts sum to totalResources, the latency figures are taken over the
\* alive resources with a latency (absent when there are none) with
\* min <= avg <= max; a completed index run stores the counts of this
\* summary, and totalResources is the number of upserts of that run.
C39_SummaryCounts ==
  SummaryProduced =>
    /\ ix.summary.totalResources = Len(ix.resources)
    /\ ix.summary.aliveCount =
         Cardinality({k \in DOMAIN ix.resources : ix.resources[k].health.isAlive})
    /\ ix.summary.aliveCount + ix.summary.deadCount = ix.summary.totalResources
    /\ CountSum(ix.summary.byCategory, DOMAIN ix.summary.byCategory) = ix.summary.totalResources
    /\ \A c \in DOMAIN ix.summary.byCategory : ix.summary.byCategory[c] > 0
    /\ LatencyFiguresOverAlive(ix.summary)
    /\ ix.persistToDb /\ ix.pc = "returned" =>
         /\ CompletedRunRows # {}
         /\ \A r \in CompletedRunRows :
              /\ r.totalResources = <<ix.summary.totalResources>>
              /\ r.aliveCount = <<ix.summary.aliveCount>>
              /\ r.deadCount = <<ix.summary.deadCount>>
              /\ r.avgLatencyMs = OrNull(ix.summary.avgLatencyMs, NoNumber)
         /\ ix.summary.totalResources = ix.k

\* a run completed in the database whose summary counts an alive resource
\* and a dead one of lower latency, in more than one category
C39_Witness ==
  /\ ix.pc = "returned"
  /\ ix.persistToDb
  /\ CompletedRunRows # {}
  /\ AliveWithLatency # {}
  /\ \E k \in DOMAIN ix.resources :
       /\ ~ix.resources[k].health.isAlive
       /\ ix.resources[k].health.latencyMs # NoNumber
       /\ ix.resources[k].health.latencyMs < ix.summary.minLatencyMs
  /\ Cardinality(DOMAIN ix.summary.byCategory) > 1
  /\ ix.k > 1

====
